---- MODULE Spec2Model ----
(***************************************************************************)
(* Limit order book of simulator/lob.py (class OrderBook) together with    *)
(* the Order and Trade records of simulator/models.py.                     *)
(*                                                                         *)
(* Prices are floats in the source; the book only compares them and uses   *)
(* them as dictionary keys, so they are modelled as integer ticks.  Order  *)
(* objects are Python references shared by the caller, the level deques    *)
(* and the id index: they live in order_pool (keyed by order_id) and the   *)
(* deques hold order ids.  Order ids come from the caller's counter        *)
(* (scripts/phase1_sim.py, generators.py), so they are pairwise distinct.  *)
(* The two heapq lists are modelled as bags: heapq guarantees only that    *)
(* element 0 is a minimum and that heappop removes one minimum.            *)
(***************************************************************************)
EXTENDS Integers, Sequences, FiniteSets, Bags, TLC

\* Bounds of the model.
MaxOrders == 3
MaxPrice == 2
MaxQty == 2
MaxX == 6          \* largest total_quantity of an execution strategy
MaxT == 3          \* longest horizon of an execution strategy
MaxVol == 2        \* largest entry of a market volume profile
MaxDt == 2         \* longest wait drawn for one candidate arrival
MaxTime == 4       \* the Hawkes clock is followed up to this time
MaxDraw == 2       \* largest normal draw, in thirds of a cent
MaxUpdates == 2    \* update_state calls followed since the last reset
MaxWindow == 2     \* largest detection_window of a PredatoryHFTAgent
MaxLag == 2        \* largest lag_steps of a MultiAssetGenerator
MaxCalls == 4      \* generate_events calls followed
MaxRequests == 3   \* HTTP requests the server accepts

\* "if len(self.history) > 100: self.history.pop(0)"
HistoryCap == 100

\* Python's None as returned by get_best_bid / get_best_ask.
None == -1

\* Price carried by MARKET orders (ignored by the book).
MarketPrice == 0

VARIABLES
    bid_prices,        \* OrderBook.bid_prices: heap of negated bid prices
    bids,              \* OrderBook.bids: defaultdict price -> deque of orders
    ask_prices,        \* OrderBook.ask_prices: heap of ask prices
    asks,              \* OrderBook.asks: defaultdict price -> deque of orders
    orders,            \* OrderBook.orders: keys of the id index
    trade_id_counter,  \* OrderBook.trade_id_counter
    trades,            \* OrderBook.trades: log of every trade
    order_pool,        \* the Order objects created so far, by order_id
    order_id_counter,  \* the caller's next order id
    returned,          \* the caller's copy of the latest add_order call:
                       \* the id of the order passed and the trades returned
    \* simulator/strategies.py: one ExecutionStrategy object and its result
    total_quantity,    \* ExecutionStrategy.total_quantity
    horizon,           \* ExecutionStrategy.horizon
    risk_aversion,     \* AlmgrenChrissStrategy.risk_aversion
    strategy,          \* the class whose get_schedule ran last, or "none"
    market_volume_profile,  \* the argument of VWAPStrategy.get_schedule
    schedule,          \* the array get_schedule returned
    \* simulator/generators.py: one OrderFlowGenerator and its Hawkes process
    hawkes_history,        \* HawkesProcessGenerator.history
    hawkes_current_time,   \* HawkesProcessGenerator.current_time
    current_time,          \* OrderFlowGenerator.current_time
    generator_order_id_counter,  \* OrderFlowGenerator.order_id_counter
    pc,                    \* "idle", or "thinning" inside the while loop of
                           \* generate_next_arrival
    call_start,            \* the Hawkes clock when generate_next_arrival
                           \* was entered last
    event,                 \* the latest generate_event call: its argument,
                           \* the rate and dispersion it used and the
                           \* tuple (dt, order, is_cancel) it returned
    base_lambda,           \* OrderFlowGenerator.base_lambda
    price_std,             \* OrderFlowGenerator.price_std
    use_hawkes,            \* OrderFlowGenerator.use_hawkes
    current_regime,        \* OrderFlowGenerator.current_regime
    hawkes_mu,             \* HawkesProcessGenerator.mu
    hawkes_alpha,          \* HawkesProcessGenerator.alpha, in tenths
    \* simulator/impact.py: one MarketImpactModel
    permanent_impact_state,  \* MarketImpactModel.permanent_impact_state, in
                             \* units of perm_impact_param * volatility
    impact_log,            \* the (trade_size, side) of the update_state
                           \* calls since construction or the last reset()
    preview,               \* the latest get_execution_price call: its
                           \* arguments and the triple it returned
    execution,             \* the latest execute_market_order_with_impact
                           \* call of an ImpactAwareOrderBook: the calls it
                           \* made, in order, and what it returned
    \* simulator/strategies.py: one PredatoryHFTAgent
    window,                \* PredatoryHFTAgent.window
    threshold_x2,          \* PredatoryHFTAgent.threshold, doubled
    imbalance_history,     \* PredatoryHFTAgent.imbalance_history
    is_detecting,          \* PredatoryHFTAgent.is_detecting
    update_call,           \* the latest update call: its arguments and
                           \* what it returned
    \* simulator/env.py: one TradingEnv (its impact model is the one above)
    env_total_quantity,    \* TradingEnv.total_quantity
    env_horizon,           \* TradingEnv.horizon
    remaining_qty,         \* TradingEnv.remaining_qty
    current_step,          \* TradingEnv.current_step
    done,                  \* the done flag returned by the latest step
    obs,                   \* the observation returned by the latest reset
                           \* or step: its third and fourth components
    \* simulator/generators.py: one MultiAssetGenerator
    lag_steps,             \* MultiAssetGenerator.lag_steps
    price_history_a,       \* MultiAssetGenerator.price_history_a
    mid_a,                 \* MultiAssetGenerator.mid_a
    mid_b,                 \* MultiAssetGenerator.mid_b, a fraction
    limit_prices_a,        \* every LIMIT price asset A has produced
    events_generated,      \* generate_events calls made
    \* api.py: the module-level Simulator and the threads serving requests
    sim,                   \* the Simulator bound to the global name sim
    workers,               \* per thread: the handler it runs and where
    requests_started       \* requests accepted so far

book_vars == <<bid_prices, bids, ask_prices, asks, orders, trade_id_counter,
               trades, order_pool, order_id_counter, returned>>

strategy_vars == <<total_quantity, horizon, risk_aversion, strategy,
                   market_volume_profile, schedule>>

generator_vars == <<hawkes_history, hawkes_current_time, current_time,
                    generator_order_id_counter, pc, call_start, event,
                    base_lambda, price_std, use_hawkes, current_regime,
                    hawkes_mu, hawkes_alpha>>

impact_vars == <<permanent_impact_state, impact_log, preview, execution>>

agent_vars == <<window, threshold_x2, imbalance_history, is_detecting,
                update_call>>

env_vars == <<env_total_quantity, env_horizon, remaining_qty, current_step,
              done, obs>>

multi_asset_vars == <<lag_steps, price_history_a, mid_a, mid_b,
                      limit_prices_a, events_generated>>

api_vars == <<sim, workers, requests_started>>

\* Everything that is not part of the order book and its caller.
non_book_vars == <<strategy_vars, generator_vars, impact_vars, agent_vars,
                   env_vars, multi_asset_vars,
                   api_vars>>

\* Everything outside the strategy objects, outside the generator, and so
\* on for each group of objects.
non_strategy_vars == <<book_vars, generator_vars, impact_vars, agent_vars,
                       env_vars, multi_asset_vars,
                   api_vars>>
non_generator_vars == <<book_vars, strategy_vars, impact_vars, agent_vars,
                        env_vars, multi_asset_vars,
                   api_vars>>
non_impact_vars == <<book_vars, strategy_vars, generator_vars, agent_vars,
                     env_vars, multi_asset_vars,
                   api_vars>>
non_agent_vars == <<book_vars, strategy_vars, generator_vars, impact_vars,
                    env_vars, multi_asset_vars,
                   api_vars>>
\* A TradingEnv owns an impact model: its actions write both groups.
non_env_vars == <<book_vars, strategy_vars, generator_vars, agent_vars,
                  multi_asset_vars,
                   api_vars>>
non_api_vars == <<book_vars, strategy_vars, generator_vars, impact_vars,
                  agent_vars, env_vars, multi_asset_vars>>
non_multi_asset_vars == <<book_vars, strategy_vars, generator_vars,
                          impact_vars, agent_vars, env_vars,
                   api_vars>>

vars == <<book_vars, strategy_vars, generator_vars, impact_vars, agent_vars,
          env_vars, multi_asset_vars,
                   api_vars>>

Prices == 1..MaxPrice
\* Order sizes: the unit and the largest size.  Every caller draws a quantity
\* of at least 1 (generators.py line 92, scripts/phase1_sim.py lines 32, 38).
Quantities == {1, MaxQty}
Sides == {"BUY", "SELL"}

----------------------------------------------------------------------------
\* models.py

\* Order(order_id, side, order_type, price, quantity), filled_quantity = 0.
\* The timestamp field is never read by the book and is left out.
Order(order_id, side, order_type, price, quantity) ==
    [order_id |-> order_id, side |-> side, order_type |-> order_type,
     price |-> price, quantity |-> quantity, filled_quantity |-> 0]

\* Order.remaining_quantity
remaining_quantity(o) == o.quantity - o.filled_quantity

\* Trade(trade_id, maker_order_id, taker_order_id, side, price, quantity)
Trade(trade_id, maker_order_id, taker_order_id, side, price, quantity) ==
    [trade_id |-> trade_id, maker_order_id |-> maker_order_id,
     taker_order_id |-> taker_order_id, side |-> side, price |-> price,
     quantity |-> quantity]

----------------------------------------------------------------------------
\* Library containers used by lob.py

\* heap[0] of a heapq list
HeapTop(h) == CHOOSE x \in BagToSet(h) : \A y \in BagToSet(h) : x <= y

heappush(h, x) == h (+) SetToBag({x})

\* A pop that takes the last entry of the heap, not its head.
heappop_largest(h) ==
    h (-) SetToBag({CHOOSE x \in BagToSet(h) : \A y \in BagToSet(h) : y <= x})

heappop(h) == h (-) SetToBag({HeapTop(h)})

HeapEmpty(h) == BagToSet(h) = {}

\* d[k] on a defaultdict(deque): reading a missing key inserts an empty deque.
DictTouch(d, k) == IF k \in DOMAIN d THEN d ELSE d @@ (k :> <<>>)

\* del d[k]
DictDel(d, k) == [q \in (DOMAIN d) \ {k} |-> d[q]]

\* deque.remove(x): removes the first occurrence of x.
\* popleft() where remove(x) was meant.
DequeRemoveHead(q, x) == Tail(q)

\* deque.remove(x): drops the first occurrence and keeps the rest in order.
RECURSIVE DequeRemove(_, _)
DequeRemove(q, x) ==
    IF q = <<>> THEN <<>>
    ELSE IF Head(q) = x THEN Tail(q)
    ELSE <<Head(q)>> \o DequeRemove(Tail(q), x)

InDeque(q, x) == \E i \in 1..Len(q) : q[i] = x

----------------------------------------------------------------------------
\* The book as one value, threaded through the methods of OrderBook.

Book == [bid_prices |-> bid_prices, bids |-> bids, ask_prices |-> ask_prices,
         asks |-> asks, orders |-> orders,
         trade_id_counter |-> trade_id_counter, trades |-> trades,
         pool |-> order_pool]

\* Truthiness of a level deque: "if not self.asks[price]".
LevelLive(d, price) == d[price] # <<>>

\* The test of the heap head in get_best_bid / get_best_ask:
\* "if self.bids[price]: return price", else the head is popped.
HeadAssumedLive(d, price) == TRUE

HeadIsLive(d, price) == d[price] # <<>>

\* The bid heap is a min-heap of negated prices: "-order.price" when pushed,
\* "-best_bid_neg" when read.
BidKeyNotNegated(price) == price

BidKey(price) == -price

RECURSIVE get_best_bid(_)
get_best_bid(b) ==
    IF HeapEmpty(b.bid_prices) THEN [book |-> b, ret |-> None]
    ELSE LET best_bid_neg == HeapTop(b.bid_prices)
             price == BidKey(best_bid_neg)
             b1 == [b EXCEPT !.bids = DictTouch(@, price)]
         IN  IF HeadIsLive(b1.bids, price) THEN [book |-> b1, ret |-> price]
             ELSE get_best_bid([b1 EXCEPT !.bid_prices = heappop(@)])

RECURSIVE get_best_ask(_)
get_best_ask(b) ==
    IF HeapEmpty(b.ask_prices) THEN [book |-> b, ret |-> None]
    ELSE LET best_ask == HeapTop(b.ask_prices)
             b1 == [b EXCEPT !.asks = DictTouch(@, best_ask)]
         IN  IF HeadIsLive(b1.asks, best_ask) THEN [book |-> b1, ret |-> best_ask]
             ELSE get_best_ask([b1 EXCEPT !.ask_prices = heappop(@)])

----------------------------------------------------------------------------
\* Matching

SideDict(b, side) == IF side = "BUY" THEN b.bids ELSE b.asks

WithSideDict(b, side, d) ==
    IF side = "BUY" THEN [b EXCEPT !.bids = d] ELSE [b EXCEPT !.asks = d]

Opposite(side) == IF side = "BUY" THEN "SELL" ELSE "BUY"

\* match_quantity = min(taker.remaining_quantity, maker.remaining_quantity)
MatchQuantityTakerTotal(taker, maker) ==
    IF taker.quantity < remaining_quantity(maker)
    THEN taker.quantity ELSE remaining_quantity(maker)

MatchQuantity(taker, maker) ==
    IF remaining_quantity(taker) < remaining_quantity(maker)
    THEN remaining_quantity(taker) ELSE remaining_quantity(maker)

\* Trade(price=price): the price of the level being matched.
TradePriceOfTaker(taker, price) == taker.price

TradePrice(taker, price) == price

\* The maker's fill not booked.
MakerFillOmitted(match_quantity) == 0

\* maker_order.filled_quantity += match_quantity
MakerFill(match_quantity) == match_quantity

\* "del self.orders[maker_order.order_id]" for a filled maker
DeregisterSkipped(index, order_id) == index

Deregister(index, order_id) == index \ {order_id}

\* _match_at_price(taker_order, price_queue, price); price_queue is the deque
\* at `price` on the maker's side.  Returns the book and the trades made.
RECURSIVE match_at_price(_, _, _, _)
match_at_price(b, taker_id, maker_side, price) ==
    LET price_queue == SideDict(b, maker_side)[price]
        taker_order == b.pool[taker_id]
    IN  IF ~(remaining_quantity(taker_order) > 0 /\ price_queue # <<>>)
        THEN [book |-> b, trades |-> <<>>]
        ELSE
          LET maker_id == Head(price_queue)
              maker_order == b.pool[maker_id]
              match_quantity == MatchQuantity(taker_order, maker_order)
              pool1 == [b.pool EXCEPT
                          ![taker_id].filled_quantity = @ + match_quantity,
                          ![maker_id].filled_quantity =
                              @ + MakerFill(match_quantity)]
              trade == Trade(b.trade_id_counter, maker_id, taker_id,
                             taker_order.side,
                             TradePrice(taker_order, price), match_quantity)
              b1 == [b EXCEPT !.pool = pool1,
                              !.trade_id_counter = @ + 1,
                              !.trades = Append(@, trade)]
              b2 == IF remaining_quantity(pool1[maker_id]) = 0
                    THEN [WithSideDict(b1, maker_side,
                             [SideDict(b1, maker_side) EXCEPT
                                 ![price] = Tail(@)])
                           EXCEPT !.orders =
                             IF maker_id \in @ THEN Deregister(@, maker_id)
                             ELSE @]
                    ELSE b1
              rest == match_at_price(b2, taker_id, maker_side, price)
          IN  [book |-> rest.book, trades |-> <<trade>> \o rest.trades]

\* The queue a residual is appended to: deque.append
PostAtFront(queue, order_id) == <<order_id>> \o queue

PostAtTail(queue, order_id) == Append(queue, order_id)

\* _post_limit_order(order)
post_limit_order(b, order_id) ==
    LET order == b.pool[order_id]
        b0 == [b EXCEPT !.orders = @ \cup {order_id}]
    IN  IF order.side = "BUY"
        THEN LET d == DictTouch(b0.bids, order.price)
                 h == IF ~LevelLive(d, order.price)
                      THEN heappush(b0.bid_prices, BidKey(order.price))
                      ELSE b0.bid_prices
             IN  [b0 EXCEPT !.bid_prices = h,
                            !.bids = [d EXCEPT ![order.price] =
                                         PostAtTail(@, order_id)]]
        ELSE LET d == DictTouch(b0.asks, order.price)
                 h == IF ~LevelLive(d, order.price)
                      THEN heappush(b0.ask_prices, order.price)
                      ELSE b0.ask_prices
             IN  [b0 EXCEPT !.ask_prices = h,
                            !.asks = [d EXCEPT ![order.price] =
                                         PostAtTail(@, order_id)]]

\* The best price of the side opposing a taker: get_best_ask for a BUY
\* taker, get_best_bid for a SELL taker.
BestOpposing(b, taker_side) ==
    IF taker_side = "BUY" THEN get_best_ask(b) ELSE get_best_bid(b)

\* "if not self.asks[best_ask]: del self.asks[best_ask];
\*  heapq.heappop(self.ask_prices)" and its mirror image for bids.
DropLevelIfEmpty(b, maker_side, best) ==
    IF LevelLive(SideDict(b, maker_side), best) THEN b
    ELSE IF maker_side = "SELL"
         THEN [b EXCEPT !.asks = DictDel(@, best),
                        !.ask_prices = heappop(@)]
         ELSE [b EXCEPT !.bids = DictDel(@, best),
                        !.bid_prices = heappop(@)]

\* The break test of _match_limit, the None test aside:
\* "best_ask > taker_order.price" (BUY), "best_bid < taker_order.price" (SELL).
LimitStopsAtEqual(taker_side, best, limit) ==
    IF taker_side = "BUY" THEN best >= limit ELSE best =< limit

LimitNeverStops(taker_side, best, limit) == FALSE

LimitStops(taker_side, best, limit) ==
    IF taker_side = "BUY" THEN best > limit ELSE best < limit

\* The while loop of _match_limit, for either side.
RECURSIVE match_limit_loop(_, _)
match_limit_loop(b, taker_id) ==
    LET taker_order == b.pool[taker_id]
    IN  IF ~(remaining_quantity(taker_order) > 0)
        THEN [book |-> b, trades |-> <<>>]
        ELSE
          LET g == BestOpposing(b, taker_order.side)
              best == g.ret
              maker_side == Opposite(taker_order.side)
          IN  IF best = None
                 \/ LimitStops(taker_order.side, best, taker_order.price)
              THEN [book |-> g.book, trades |-> <<>>]
              ELSE
                LET m == match_at_price(g.book, taker_id, maker_side, best)
                    rest == match_limit_loop(
                              DropLevelIfEmpty(m.book, maker_side, best),
                              taker_id)
                IN  [book |-> rest.book, trades |-> m.trades \o rest.trades]

\* "if taker_order.remaining_quantity > 0: self._post_limit_order(...)"
ResidualPostedAlways(order) == TRUE

ResidualPosted(order) == remaining_quantity(order) > 0

\* _match_limit(taker_order)
match_limit(b, taker_id) ==
    LET r == match_limit_loop(b, taker_id)
    IN  IF ResidualPosted(r.book.pool[taker_id])
        THEN [book |-> post_limit_order(r.book, taker_id), trades |-> r.trades]
        ELSE r

\* _match_market(taker_order): the same loop without a price limit and
\* without posting.
RECURSIVE match_market(_, _)
match_market(b, taker_id) ==
    LET taker_order == b.pool[taker_id]
    IN  IF ~(remaining_quantity(taker_order) > 0)
        THEN [book |-> b, trades |-> <<>>]
        ELSE
          LET g == BestOpposing(b, taker_order.side)
              best == g.ret
              maker_side == Opposite(taker_order.side)
          IN  IF best = None
              THEN [book |-> g.book, trades |-> <<>>]
              ELSE
                LET m == match_at_price(g.book, taker_id, maker_side, best)
                    rest == match_market(
                              DropLevelIfEmpty(m.book, maker_side, best),
                              taker_id)
                IN  [book |-> rest.book, trades |-> m.trades \o rest.trades]

\* add_order(order): dispatch on the order type.
add_order_as_limit(b, order_id) == match_limit(b, order_id)

add_order(b, order_id) ==
    IF b.pool[order_id].order_type = "MARKET" THEN match_market(b, order_id)
    ELSE IF b.pool[order_id].order_type = "LIMIT" THEN match_limit(b, order_id)
    ELSE [book |-> b, trades |-> <<>>]

\* cancel_order(order_id)
\* cancel_order without "del self.orders[order_id]".
IndexKept(index, order_id) == index

\* del self.orders[order_id]
IndexDel(index, order_id) == index \ {order_id}

cancel_order(b, order_id) ==
    IF order_id \notin b.orders THEN [book |-> b, ret |-> FALSE]
    ELSE
      LET order == b.pool[order_id]
          side_dict == DictTouch(SideDict(b, order.side), order.price)
      IN  IF InDeque(side_dict[order.price], order_id)
          THEN LET removed == [side_dict EXCEPT ![order.price] =
                                  DequeRemove(@, order_id)]
                   d == IF ~LevelLive(removed, order.price)
                        THEN DictDel(removed, order.price) ELSE removed
               IN  [book |-> [WithSideDict(b, order.side, d)
                                EXCEPT !.orders = IndexDel(@, order_id)],
                    ret |-> TRUE]
          ELSE \* ValueError: the defaultdict lookup has already happened
               [book |-> WithSideDict(b, order.side, side_dict),
                ret |-> FALSE]

\* ask - bid, with the operands swapped.
SpreadSwapped(bid, ask) == bid - ask

SpreadOf(bid, ask) == ask - bid

\* get_spread: both lookups run, with their lazy heap clean-up, before the
\* None test.
get_spread(b) ==
    LET bid == get_best_bid(b)
        ask == get_best_ask(bid.book)
    IN  [book |-> ask.book,
         ret |-> IF bid.ret # None /\ ask.ret # None
                 THEN SpreadOf(bid.ret, ask.ret) ELSE None]

\* sorted(keys) and sorted(keys, reverse=True) as sequences.
RECURSIVE Sorted(_, _)
Sorted(keys, reverse) ==
    IF keys = {} THEN <<>>
    ELSE LET first == IF reverse
                      THEN CHOOSE x \in keys : \A y \in keys : y <= x
                      ELSE CHOOSE x \in keys : \A y \in keys : x <= y
         IN  <<first>> \o Sorted(keys \ {first}, reverse)

\* seq[:n] for n >= 0.
Slice(seq, n) == SubSeq(seq, 1, IF n < Len(seq) THEN n ELSE Len(seq))

\* The snapshot adding up the original quantities.
SnapshotQuantityOriginal(order) == order.quantity

\* o.remaining_quantity, the term of the sum in get_snapshot.
SnapshotQuantity(order) == remaining_quantity(order)

\* sum(o.remaining_quantity for o in level)
RECURSIVE LevelVolume(_, _)
LevelVolume(pool, level) ==
    IF level = <<>> THEN 0
    ELSE SnapshotQuantity(pool[Head(level)]) + LevelVolume(pool, Tail(level))

\* One side of the snapshot: a (price, vol) pair for each of the first
\* n_levels KEYS of the side's dict, whether or not an order rests there.
SideSnapshot(b, d, reverse, n_levels) ==
    LET prices == Slice(Sorted(DOMAIN d, reverse), n_levels)
    IN  [i \in 1..Len(prices) |->
            <<prices[i], LevelVolume(b.pool, d[prices[i]])>>]

\* get_snapshot reads self.bids[p] only for keys p, so it inserts nothing.
get_snapshot(b, n_levels) ==
    [book |-> b,
     ret |-> [bids |-> SideSnapshot(b, b.bids, TRUE, n_levels),
              asks |-> SideSnapshot(b, b.asks, FALSE, n_levels)]]

----------------------------------------------------------------------------
\* The state machine: one action per public call on the book.

EmptyDict == [p \in {} |-> <<>>]

\* No strategy object has been built.
StrategyIdle ==
    /\ total_quantity = 0
    /\ horizon = 1
    /\ risk_aversion = 0
    /\ strategy = "none"
    /\ market_volume_profile = <<>>
    /\ schedule = <<>>

\* Before the first generate_event call nothing has been returned.
NoEvent ==
    [mid_price |-> 0, rate |-> 0, price_std_x2 |-> 0, dt |-> 0,
     order |-> [order_type |-> "None"], is_cancel |-> FALSE]

\* OrderFlowGenerator.__init__ with its HawkesProcessGenerator, but for the
\* constructor arguments: empty history, clocks at 0, LOW_VOLATILITY,
\* alpha 0.6.
GeneratorFresh ==
    /\ hawkes_history = <<>>
    /\ hawkes_current_time = 0
    /\ current_time = 0
    /\ generator_order_id_counter = 1
    /\ pc = "idle"
    /\ call_start = 0
    /\ event = NoEvent
    /\ current_regime = "LOW_VOLATILITY"
    /\ hawkes_alpha = 6

\* A generator built with the default arguments and not used.
GeneratorIdle ==
    /\ GeneratorFresh
    /\ base_lambda = 1
    /\ price_std = 1
    /\ use_hawkes = TRUE
    /\ hawkes_mu = 1

\* Before the first get_execution_price call nothing has been returned.
NoPreview ==
    [trade_size |-> 0, side |-> "BUY", current_mid |-> 0,
     market_liquidity |-> 0, exec_price |-> 0, temp_impact |-> 0,
     perm_impact |-> 0]

\* Before the first execute_market_order_with_impact call.
NoExecution ==
    [count |-> 0, order_id |-> 0, calls |-> <<>>, trades |-> <<>>,
     total_impact_cost |-> [num |-> 0, den |-> 1]]

\* MarketImpactModel.__init__
ImpactIdle ==
    /\ permanent_impact_state = 0
    /\ impact_log = <<>>
    /\ preview = NoPreview
    /\ execution = NoExecution

\* Before the first update call nothing has been returned.
NoUpdateCall ==
    [bids |-> <<>>, asks |-> <<>>, ret |-> [side |-> "not called"]]

\* PredatoryHFTAgent.__init__, but for the constructor arguments.
AgentFresh ==
    /\ imbalance_history = <<>>
    /\ is_detecting = FALSE
    /\ update_call = NoUpdateCall

\* An agent with a window of one snapshot and threshold 2.0, not used.
AgentIdle ==
    /\ AgentFresh
    /\ window = 1
    /\ threshold_x2 = 4

\* No TradingEnv has been built.
EnvIdle ==
    /\ env_total_quantity = 1
    /\ env_horizon = 1
    /\ remaining_qty = 1
    /\ current_step = 0
    /\ done = FALSE
    /\ obs = <<>>

\* No MultiAssetGenerator has been built.
MultiAssetIdle ==
    /\ lag_steps = 0
    /\ price_history_a = <<>>
    /\ mid_a = 0
    /\ mid_b = [num |-> 0, den |-> 1]
    /\ limit_prices_a = <<>>
    /\ events_generated = 0

\* The objects of the other modules, unused.
\* The worker threads of the server, and what one does between requests.
Workers == {1, 2}
IdleWorker == [handler |-> "idle", pc |-> "idle", self |-> 0,
               seen |-> <<>>, response |-> <<>>]

\* Simulator() as api.py line 129 leaves it, warm-up included: every part
\* counts the ticks applied to it since.
NewSimulator(generation) ==
    [generation |-> generation, generator |-> 0, lob |-> 0, predator |-> 0,
     mid_price |-> 0, current_regime |-> "LOW_VOLATILITY",
     hawkes_regime |-> "LOW_VOLATILITY"]

\* The server has taken no request.
ApiIdle ==
    /\ sim = NewSimulator(0)
    /\ workers = [w \in Workers |-> IdleWorker]
    /\ requests_started = 0

ImpactAgentEnvIdle ==
    ImpactIdle /\ AgentIdle /\ EnvIdle /\ MultiAssetIdle /\ ApiIdle

\* OrderBook.__init__ and the caller's counter.
BookInit ==
    /\ bid_prices = EmptyBag
    /\ bids = EmptyDict
    /\ ask_prices = EmptyBag
    /\ asks = EmptyDict
    /\ orders = {}
    /\ trade_id_counter = 0
    /\ trades = <<>>
    /\ order_pool = EmptyDict
    /\ order_id_counter = 1
    /\ returned = [order_id |-> 0, trades |-> <<>>]

Init == BookInit /\ StrategyIdle /\ GeneratorIdle /\ ImpactAgentEnvIdle

SetBook(b) ==
    /\ bid_prices' = b.bid_prices
    /\ bids' = b.bids
    /\ ask_prices' = b.ask_prices
    /\ asks' = b.asks
    /\ orders' = b.orders
    /\ trade_id_counter' = b.trade_id_counter
    /\ trades' = b.trades
    /\ order_pool' = b.pool

\* The caller builds Order(order_id_counter, ...) and passes it to add_order.
Submit(side, order_type, price, quantity) ==
    /\ order_id_counter <= MaxOrders
    /\ LET order == Order(order_id_counter, side, order_type, price, quantity)
           b0 == [Book EXCEPT !.pool = @ @@ (order_id_counter :> order)]
           r == add_order(b0, order_id_counter)
       IN  /\ SetBook(r.book)
           /\ returned' = [order_id |-> order_id_counter, trades |-> r.trades]
    /\ order_id_counter' = order_id_counter + 1
    /\ UNCHANGED non_book_vars

AddLimit ==
    \E side \in Sides, price \in Prices, quantity \in Quantities :
        Submit(side, "LIMIT", price, quantity)

AddMarket ==
    \E side \in Sides, quantity \in Quantities :
        Submit(side, "MARKET", MarketPrice, quantity)

\* cancel_order for any id submitted so far or the next, unused one.
Cancel ==
    \E order_id \in 1..order_id_counter :
        LET r == cancel_order(Book, order_id)
        IN  /\ SetBook(r.book)
            /\ UNCHANGED <<order_id_counter, returned, non_book_vars>>

GetBestBid ==
    LET r == get_best_bid(Book)
    IN  /\ SetBook(r.book)
        /\ UNCHANGED <<order_id_counter, returned, non_book_vars>>

GetBestAsk ==
    LET r == get_best_ask(Book)
    IN  /\ SetBook(r.book)
        /\ UNCHANGED <<order_id_counter, returned, non_book_vars>>

GetSpread ==
    LET r == get_spread(Book)
    IN  /\ SetBook(r.book)
        /\ UNCHANGED <<order_id_counter, returned, non_book_vars>>

\* The depths a snapshot is asked for: short enough to truncate a side.
SnapshotDepths == 1..MaxPrice

GetSnapshot ==
    \E n_levels \in SnapshotDepths :
        LET r == get_snapshot(Book, n_levels)
        IN  /\ SetBook(r.book)
            /\ UNCHANGED <<order_id_counter, returned, non_book_vars>>

Next ==
    \/ AddLimit \/ AddMarket \/ Cancel
    \/ GetBestBid \/ GetBestAsk \/ GetSpread \/ GetSnapshot

Spec == Init /\ [][Next]_vars

----------------------------------------------------------------------------
\* simulator/strategies.py: the schedules of the execution strategies.
\* Arrays are sequences indexed from 1; schedule[i] of the code is
\* schedule[i + 1] here.

\* np.sum
RECURSIVE SumSeq(_)
SumSeq(seq) == IF seq = <<>> THEN 0 ELSE Head(seq) + SumSeq(Tail(seq))

\* The remainder forgotten.
TWAPRemainderDropped(X, T) == 0

\* remainder = total_quantity % horizon
TWAPRemainder(X, T) == X % T

\* The whole shortfall added to the first step.
AddAllToFirst(sched, i, n, T) == [sched EXCEPT ![1] = @ + (n - i)]

\* for i in range(n): schedule[i % horizon] += 1, from index i on.
RECURSIVE AddOneEach(_, _, _, _)
AddOneEach(sched, i, n, T) ==
    IF i >= n THEN sched
    ELSE AddOneEach([sched EXCEPT ![(i % T) + 1] = @ + 1], i + 1, n, T)

\* TWAPStrategy.get_schedule
twap_schedule(X, T) ==
    LET base_qty == X \div T
        remainder == TWAPRemainder(X, T)
    IN  AddOneEach([i \in 1..T |-> base_qty], 0, remainder, T)

\* np.argmax: the first index holding the largest entry.
ArgMax(sched) ==
    CHOOSE i \in 1..Len(sched) :
        /\ \A j \in 1..Len(sched) : sched[j] <= sched[i]
        /\ \A j \in 1..(i - 1) : sched[j] < sched[i]

\* for i in range(n): schedule[argmax(schedule)] -= 1
RECURSIVE SubtractFromLargest(_, _)
SubtractFromLargest(sched, n) ==
    IF n = 0 THEN sched
    ELSE SubtractFromLargest([sched EXCEPT ![ArgMax(sched)] = @ - 1], n - 1)

\* The rounding drift taken for zero.
VWAPDiffIgnored(X, sched) == 0

\* diff = total_quantity - np.sum(schedule)
VWAPDiff(X, sched) == X - SumSeq(sched)

\* VWAPStrategy.get_schedule.  (proportions * X).astype(int) truncates the
\* double (v / total) * X; for the profiles and quantities drawn here this
\* is the integer quotient of v * X by total.
vwap_schedule(X, T, profile) ==
    LET total_market_vol == SumSeq(profile)
        sched == [i \in 1..Len(profile) |->
                     (profile[i] * X) \div total_market_vol]
        diff == VWAPDiff(X, sched)
    IN  IF diff > 0 THEN AddOneEach(sched, 0, diff, T)
        ELSE IF diff < 0 THEN SubtractFromLargest(sched, 0 - diff)
        ELSE sched

\* Python's round() of the fraction n / d, d > 0: to nearest, ties to even.
RoundHalfEven(n, d) ==
    LET q == n \div d
        r == n % d
    IN  IF 2 * r < d THEN q
        ELSE IF 2 * r > d THEN q + 1
        ELSE IF q % 2 = 0 THEN q ELSE q + 1

\* The special case of the linear trajectory left out.
KappaNeverZero(lambda) == FALSE

\* kappa == 0: kappa = sqrt(risk_aversion * volatility**2 / eta) with
\* volatility and eta positive.
KappaIsZero(lambda) == lambda = 0

\* The rounded trades of the linear trajectory xj = X * (1 - j/T):
\* trajectories[i] - trajectories[i+1] is X*(T-i)/T - X*(T-i-1)/T.  For
\* horizons up to 5 the doubles round as the exact fractions do.
LinearTrades(X, T) ==
    [i \in 1..T |->
        RoundHalfEven(X * (T - (i - 1)) - X * (T - i), T)]

\* The rounded trades get_schedule may compute.  For kappa > 0 the
\* trajectory X * sinh(kappa*(T-j)) / sinh(kappa*T) decreases from X to 0,
\* so each difference lies in [0, X] and rounds to an integer of 0..X;
\* which one depends on kappa and is left open.
RoundedTrades(X, T, lambda) ==
    IF KappaIsZero(lambda) THEN {LinearTrades(X, T)}
    ELSE [1..T -> 0..X]

\* The residual left where it is.
ResidualDropped(X, rounded) == rounded

\* diff = X - np.sum(schedule); if diff != 0: schedule[-1] += diff
ResidualOntoLast(X, rounded) ==
    LET diff == X - SumSeq(rounded)
    IN  IF diff # 0 THEN [rounded EXCEPT ![Len(rounded)] = @ + diff]
        ELSE rounded

\* The risk aversions drawn: 0 and one positive value.
RiskAversions == {0, 1}

\* The volume profiles of a horizon: non-negative with a positive total.
Profiles(T) == {v \in [1..T -> 0..MaxVol] : SumSeq(v) > 0}

\* The strategy objects: construction, then any get_schedule calls.
StrategyInit ==
    /\ BookInit
    /\ GeneratorIdle
    /\ ImpactAgentEnvIdle
    /\ total_quantity \in 0..MaxX
    /\ horizon \in 1..MaxT
    /\ risk_aversion \in RiskAversions
    /\ strategy = "none"
    /\ market_volume_profile = <<>>
    /\ schedule = <<>>

TWAPGetSchedule ==
    /\ strategy' = "TWAP"
    /\ schedule' = twap_schedule(total_quantity, horizon)
    /\ market_volume_profile' = <<>>
    /\ UNCHANGED <<total_quantity, horizon, risk_aversion,
                   non_strategy_vars>>

VWAPGetSchedule ==
    \E profile \in Profiles(horizon) :
        /\ strategy' = "VWAP"
        /\ market_volume_profile' = profile
        /\ schedule' = vwap_schedule(total_quantity, horizon, profile)
        /\ UNCHANGED <<total_quantity, horizon, risk_aversion,
                       non_strategy_vars>>

AlmgrenChrissGetSchedule ==
    \E rounded \in RoundedTrades(total_quantity, horizon, risk_aversion) :
        /\ strategy' = "AlmgrenChriss"
        /\ schedule' = ResidualOntoLast(total_quantity, rounded)
        /\ market_volume_profile' = <<>>
        /\ UNCHANGED <<total_quantity, horizon, risk_aversion,
                       non_strategy_vars>>

StrategyNext ==
    TWAPGetSchedule \/ VWAPGetSchedule \/ AlmgrenChrissGetSchedule

SpecStrategy == StrategyInit /\ [][StrategyNext]_vars

\* The longest horizon for which the doubles of the linear trajectory
\* X * (1 - j/T) round as the exact fractions do (at T = 6 the differences
\* that are halves exactly come out just off the half).
LongHorizon == 5

\* The strategies with risk_aversion 0, where kappa == 0 and the
\* trajectory is the linear one, over the horizons up to LongHorizon.
StrategyLinearInit ==
    /\ BookInit
    /\ GeneratorIdle
    /\ ImpactAgentEnvIdle
    /\ total_quantity \in 0..MaxX
    /\ horizon \in 1..LongHorizon
    /\ risk_aversion = 0
    /\ strategy = "none"
    /\ market_volume_profile = <<>>
    /\ schedule = <<>>

SpecStrategyLinear == StrategyLinearInit /\ [][StrategyNext]_vars

----------------------------------------------------------------------------
\* simulator/generators.py: the Hawkes arrival clock and generate_event.
\* Times are whole multiples of one time unit.

\* The waits np.random.exponential may return, in time units.
Waits == 1..MaxDt

\* pop() at the wrong end: the newest arrival is dropped.
AppendArrivalDropNewest(history, t) ==
    LET appended == Append(history, t)
    IN  IF Len(appended) > HistoryCap
        THEN SubSeq(appended, 1, HistoryCap) ELSE appended

\* The accepted arrival not recorded.
ArrivalNotRecorded(history, t) == history

\* history.append(t), and pop(0) once more than HistoryCap entries are held.
AppendArrival(history, t) ==
    LET appended == Append(history, t)
    IN  IF Len(appended) > HistoryCap THEN Tail(appended) ELSE appended

\* "np.random.random() < lambda_actual / lambda_upper" can fail: with an
\* empty history get_intensity is mu at both times and the ratio is 1;
\* otherwise the kernel has decayed over the wait and the ratio is below 1.
CanReject(history) == history # <<>>

\* "return dt": the wait of the accepted candidate.
ReturnedWait(started, now, dt) == dt

\* The outcomes of the rand_type test of generate_event.
EventTypes == {"LIMIT", "MARKET", "CANCEL"}

\* MarketRegime, and a string that is neither of its two values.
Regimes == {"LOW_VOLATILITY", "HIGH_VOLATILITY", "UNKNOWN"}

\* The scaling applied whatever the regime.
AlwaysScaled(regime) == TRUE

\* regime == MarketRegime.HIGH_VOLATILITY
IsHighVolatility(regime) == regime = "HIGH_VOLATILITY"

\* get_lambda: base_lambda * 3.0 in the high-volatility regime.
get_lambda(base, regime) ==
    base * (IF IsHighVolatility(regime) THEN 3 ELSE 1)

\* get_price_std, doubled to stay in whole numbers: price_std * 2.5 in the
\* high-volatility regime.
get_price_std_x2(std, regime) ==
    std * (IF IsHighVolatility(regime) THEN 5 ELSE 2)

\* HawkesProcessGenerator(mu=base_lambda, alpha=0.6, beta=1.2): beta in
\* tenths; no statement assigns it afterwards.
hawkes_beta == 12

\* set_regime with the excitation raised to beta in the high-volatility
\* regime.
set_regime_critical(base, regime) ==
    [current_regime |-> regime,
     mu |-> IF IsHighVolatility(regime) THEN base * 3 ELSE base,
     alpha |-> IF IsHighVolatility(regime) THEN hawkes_beta ELSE 6]

\* set_regime: the new values of current_regime, hawkes.mu and hawkes.alpha
\* (alpha 0.8 or 0.6, in tenths).
set_regime(base, regime) ==
    [current_regime |-> regime,
     mu |-> IF IsHighVolatility(regime) THEN base * 3 ELSE base,
     alpha |-> IF IsHighVolatility(regime) THEN 8 ELSE 6]

\* Prices below a cent are counted in thirds of a cent, so that a price
\* never lies halfway between two cents.
SubCent == 3

\* round(price, 2): to the nearest cent, the price given in thirds of a
\* cent and returned in cents.
RoundToCents(price) == (price + 1) \div SubCent

\* The values np.random.normal(0, sigma) may take, in thirds of a cent:
\* a normal variable takes either sign.
NormalDraws == (0 - MaxDraw)..MaxDraw

\* The draw as generate_event uses it: np.random.normal(...) for a SELL
\* and -np.random.normal(...) for a BUY.
SignedOffset(draw) == draw

\* price = mid_price + normal for SELL, mid_price - normal for BUY; the
\* mid price in cents, the result in thirds of a cent.
LimitPrice(mid_price, side, draw) ==
    IF side = "SELL" THEN mid_price * SubCent + SignedOffset(draw)
    ELSE mid_price * SubCent - SignedOffset(draw)

\* The reference prices passed to generate_event, in cents.
Mids == 1..MaxPrice

\* "None" where generate_event returns no Order object.
NoOrder == [order_type |-> "None"]

\* A cancel event that takes an order id all the same.
CancelTakesId(event_type) == TRUE

\* An Order object is built, and order_id_counter advanced, in the LIMIT
\* and MARKET branches only.
BuildsOrder(event_type) == event_type # "CANCEL"

\* The rest of generate_event after dt is known: the draws, the order and
\* the returned tuple, recorded with the argument and the rate and
\* dispersion in force.
EventOf(mid_price, dt, event_type, side, quantity, draw) ==
    [mid_price |-> mid_price,
     rate |-> IF use_hawkes THEN hawkes_mu
              ELSE get_lambda(base_lambda, current_regime),
     price_std_x2 |-> get_price_std_x2(price_std, current_regime),
     dt |-> dt,
     order |-> IF event_type = "LIMIT"
               THEN [order_id |-> generator_order_id_counter,
                     side |-> side, order_type |-> "LIMIT",
                     price |-> RoundToCents(
                                   LimitPrice(mid_price, side, draw)),
                     quantity |-> quantity]
               ELSE IF event_type = "MARKET"
               THEN [order_id |-> generator_order_id_counter,
                     side |-> side, order_type |-> "MARKET",
                     price |-> MarketPrice, quantity |-> quantity]
               ELSE NoOrder,
     is_cancel |-> event_type = "CANCEL"]

\* The draws of one generate_event call after the arrival time.
FinishEvent(dt) ==
    \E mid_price \in Mids, event_type \in EventTypes, side \in Sides,
       quantity \in Quantities, draw \in NormalDraws :
        /\ event' = EventOf(mid_price, dt, event_type, side, quantity, draw)
        /\ generator_order_id_counter' =
              IF BuildsOrder(event_type)
              THEN generator_order_id_counter + 1
              ELSE generator_order_id_counter

\* generate_event enters generate_next_arrival (use_hawkes is True).  The
\* clock is followed up to the limit given.
EventCallUntil(limit) ==
    /\ pc = "idle"
    /\ use_hawkes
    /\ hawkes_current_time < limit
    /\ pc' = "thinning"
    /\ call_start' = hawkes_current_time
    /\ UNCHANGED <<hawkes_history, hawkes_current_time, current_time,
                   generator_order_id_counter, event, base_lambda,
                   price_std, use_hawkes, current_regime, hawkes_mu,
                   hawkes_alpha, non_generator_vars>>

\* One pass of the while loop whose candidate is rejected.
RejectedUntil(limit) ==
    /\ pc = "thinning"
    /\ CanReject(hawkes_history)
    /\ \E dt \in Waits :
          /\ hawkes_current_time + dt <= limit
          /\ hawkes_current_time' = hawkes_current_time + dt
    /\ UNCHANGED <<hawkes_history, current_time, generator_order_id_counter,
                   pc, call_start, event, base_lambda, price_std,
                   use_hawkes, current_regime, hawkes_mu, hawkes_alpha,
                   non_generator_vars>>

\* The pass whose candidate is accepted, the return of
\* generate_next_arrival and the rest of generate_event.
AcceptedUntil(limit) ==
    /\ pc = "thinning"
    /\ \E dt \in Waits :
          LET now == hawkes_current_time + dt
              returned_dt == ReturnedWait(call_start, now, dt)
          IN  /\ now <= limit
              /\ hawkes_current_time' = now
              /\ hawkes_history' = AppendArrival(hawkes_history, now)
              /\ current_time' = current_time + returned_dt
              /\ FinishEvent(returned_dt)
    /\ pc' = "idle"
    /\ UNCHANGED <<call_start, base_lambda, price_std, use_hawkes,
                   current_regime, hawkes_mu, hawkes_alpha,
                   non_generator_vars>>

\* generate_event with use_hawkes False: one exponential wait at the rate
\* get_lambda(), the Hawkes process left alone.
PoissonEventUntil(limit) ==
    /\ pc = "idle"
    /\ ~use_hawkes
    /\ \E dt \in Waits :
          /\ current_time + dt <= limit
          /\ current_time' = current_time + dt
          /\ FinishEvent(dt)
    /\ UNCHANGED <<hawkes_history, hawkes_current_time, pc, call_start,
                   base_lambda, price_std, use_hawkes, current_regime,
                   hawkes_mu, hawkes_alpha, non_generator_vars>>

\* set_regime, called between two generate_event calls.
SetRegime ==
    /\ pc = "idle"
    /\ \E regime \in Regimes :
          LET new == set_regime(base_lambda, regime)
          IN  /\ current_regime' = new.current_regime
              /\ hawkes_mu' = new.mu
              /\ hawkes_alpha' = new.alpha
    /\ UNCHANGED <<hawkes_history, hawkes_current_time, current_time,
                   generator_order_id_counter, pc, call_start, event,
                   base_lambda, price_std, use_hawkes, non_generator_vars>>

GenerateEventCall == EventCallUntil(MaxTime)
CandidateRejected == RejectedUntil(MaxTime)
CandidateAccepted == AcceptedUntil(MaxTime)
PoissonEvent == PoissonEventUntil(MaxTime)

GeneratorNext ==
    \/ GenerateEventCall \/ CandidateRejected \/ CandidateAccepted
    \/ PoissonEvent \/ SetRegime

\* The constructor arguments drawn: the defaults (base_lambda 1.0 and
\* price_std 0.5 as the units) and their doubles, in both arrival modes.
GeneratorConfigs ==
    {[base_lambda |-> 1, price_std |-> 1],
     [base_lambda |-> 2, price_std |-> 2]}

GeneratorInit ==
    /\ BookInit
    /\ StrategyIdle
    /\ ImpactAgentEnvIdle
    /\ GeneratorFresh
    /\ \E config \in GeneratorConfigs :
          /\ base_lambda = config.base_lambda
          /\ price_std = config.price_std
    /\ use_hawkes \in BOOLEAN
    /\ hawkes_mu = base_lambda

SpecGenerator == GeneratorInit /\ [][GeneratorNext]_vars

\* The default generator after HistoryCap - 1 generate_event calls, each a
\* cancel event whose first candidate, one time unit on, was accepted.
GeneratorWarm ==
    /\ hawkes_history = [i \in 1..(HistoryCap - 1) |-> i]
    /\ hawkes_current_time = HistoryCap - 1
    /\ current_time = HistoryCap - 1
    /\ generator_order_id_counter = 1
    /\ pc = "idle"
    /\ call_start = HistoryCap - 2
    /\ event = [mid_price |-> 1, rate |-> 1, price_std_x2 |-> 2, dt |-> 1,
                order |-> NoOrder, is_cancel |-> TRUE]
    /\ current_regime = "LOW_VOLATILITY"
    /\ hawkes_alpha = 6
    /\ base_lambda = 1
    /\ price_std = 1
    /\ use_hawkes = TRUE
    /\ hawkes_mu = 1

\* The warm generator is followed for MaxTime more time units.
WarmLimit == HistoryCap - 1 + MaxTime

GeneratorWarmInit ==
    BookInit /\ StrategyIdle /\ ImpactAgentEnvIdle /\ GeneratorWarm

GeneratorWarmNext ==
    \/ EventCallUntil(WarmLimit) \/ RejectedUntil(WarmLimit)
    \/ AcceptedUntil(WarmLimit) \/ SetRegime

SpecGeneratorWarm == GeneratorWarmInit /\ [][GeneratorWarmNext]_vars

\* The Hawkes generator with the acceptance branch treated fairly: the test
\* "np.random.random() < lambda_actual / lambda_upper" succeeds with
\* probability above zero on every pass (mu > 0), so a loop that keeps
\* running takes it in the end.  Calls start and candidates are rejected
\* while the clock is within MaxDt; an accepted candidate may lie up to
\* MaxDt beyond, so that the accepting pass is possible in every pass.
FairLimit == MaxDt + MaxDt

GenerateEventCallFair == EventCallUntil(MaxDt)
CandidateRejectedFair == RejectedUntil(MaxDt)
CandidateAcceptedFair == AcceptedUntil(FairLimit)

GeneratorFairNext ==
    \/ GenerateEventCallFair \/ CandidateRejectedFair
    \/ CandidateAcceptedFair \/ SetRegime

\* The default constructor arguments, use_hawkes True.
GeneratorFairInit ==
    GeneratorInit /\ use_hawkes /\ base_lambda = 1 /\ price_std = 1

SpecGeneratorFair ==
    /\ GeneratorFairInit
    /\ [][GeneratorFairNext]_vars
    /\ WF_vars(CandidateAcceptedFair)

----------------------------------------------------------------------------
\* simulator/impact.py: MarketImpactModel.  Prices and impacts are counted
\* in units of perm_impact_param * volatility; temp_impact_param is ten
\* times perm_impact_param (0.1 and 0.01, the defaults every caller keeps).

\* direction = 1 if side == Side.BUY else -1
Direction(side) == IF side = "BUY" THEN 1 ELSE -1

\* abs(trade_size)
Abs(n) == IF n < 0 THEN 0 - n ELSE n

\* Twice the square root of n / d, for the ratios that have a rational one.
SqrtX2(n, d) == CHOOSE r \in 0..(2 * n) : r * r * d = 4 * n

\* temp_impact = temp_impact_param * volatility
\*               * (abs(trade_size) / max(market_liquidity, 1.0)) ** 0.5
TempImpact(trade_size, market_liquidity) ==
    5 * SqrtX2(Abs(trade_size),
               IF market_liquidity > 1 THEN market_liquidity ELSE 1)

\* perm_impact = perm_impact_param * volatility * direction
\*               * abs(trade_size)
PermImpact(trade_size, side) == Direction(side) * Abs(trade_size)

\* The price including the previewed trade's own permanent impact.
PostTradeState(state, perm_impact) == state + perm_impact

\* "+ self.permanent_impact_state": the state before the call.
PreTradeState(state, perm_impact) == state

\* The preview that books its own permanent impact.
get_execution_price_applied(state, trade_size, side, current_mid, market_liquidity) ==
    LET temp_impact == TempImpact(trade_size, market_liquidity)
        perm_impact == PermImpact(trade_size, side)
    IN  [state |-> state + perm_impact,
         ret |-> [exec_price |-> current_mid
                                 + Direction(side) * temp_impact + state,
                  temp_impact |-> temp_impact,
                  perm_impact |-> perm_impact]]

\* get_execution_price: the model's state after the call and the triple
\* returned.
get_execution_price(state, trade_size, side, current_mid, market_liquidity) ==
    LET temp_impact == TempImpact(trade_size, market_liquidity)
        perm_impact == PermImpact(trade_size, side)
    IN  [state |-> state,
         ret |-> [exec_price |-> current_mid
                                 + Direction(side) * temp_impact
                                 + PreTradeState(state, perm_impact),
                  temp_impact |-> temp_impact,
                  perm_impact |-> perm_impact]]

\* update_state: the new permanent_impact_state.
update_state(state, trade_size, side) ==
    state + PermImpact(trade_size, side)

\* The arguments drawn: sizes and liquidities whose ratios have rational
\* square roots, liquidity 0 for the floor max(market_liquidity, 1.0).
TradeSizes == {1, 4}
Liquidities == {0, 1, 4}
CurrentMids == {100}

GetExecutionPrice ==
    \E trade_size \in TradeSizes, side \in Sides,
       current_mid \in CurrentMids, market_liquidity \in Liquidities :
        LET r == get_execution_price(permanent_impact_state, trade_size,
                                     side, current_mid, market_liquidity)
        IN  /\ permanent_impact_state' = r.state
            /\ preview' = [trade_size |-> trade_size, side |-> side,
                           current_mid |-> current_mid,
                           market_liquidity |-> market_liquidity,
                           exec_price |-> r.ret.exec_price,
                           temp_impact |-> r.ret.temp_impact,
                           perm_impact |-> r.ret.perm_impact]
            /\ UNCHANGED <<impact_log, execution, non_impact_vars>>

UpdateState ==
    /\ Len(impact_log) < MaxUpdates
    /\ \E trade_size \in TradeSizes, side \in Sides :
          /\ permanent_impact_state' =
                update_state(permanent_impact_state, trade_size, side)
          /\ impact_log' = Append(impact_log, <<trade_size, side>>)
    /\ UNCHANGED <<preview, execution, non_impact_vars>>

\* reset()
ImpactReset ==
    /\ permanent_impact_state' = 0
    /\ impact_log' = <<>>
    /\ UNCHANGED <<preview, execution, non_impact_vars>>

ImpactNext == GetExecutionPrice \/ UpdateState \/ ImpactReset

ImpactInit ==
    /\ BookInit /\ StrategyIdle /\ GeneratorIdle
    /\ ImpactIdle /\ AgentIdle /\ EnvIdle /\ MultiAssetIdle /\ ApiIdle

SpecImpact == ImpactInit /\ [][ImpactNext]_vars

----------------------------------------------------------------------------
\* simulator/strategies.py: PredatoryHFTAgent.  An imbalance is the exact
\* fraction [num, den] in lowest terms; the threshold is threshold_x2 / 2.

RECURSIVE Gcd(_, _)
Gcd(a, b) == IF b = 0 THEN a ELSE Gcd(b, a % b)

\* The value of n / d, one representation per value as a float has.
Frac(n, d) == [num |-> n \div Gcd(n, d), den |-> d \div Gcd(n, d)]

\* The whole side added up.
AllLevels(side) == side

\* bids[:3], asks[:3]
TopLevels(side) == Slice(side, 3)

\* sum(q for p, q in side[:3])
RECURSIVE SumQuantities(_)
SumQuantities(side) ==
    IF side = <<>> THEN 0
    ELSE Head(side)[2] + SumQuantities(Tail(side))

\* imbalance = total_bid / max(total_ask, 1e-6), for integer totals.
Imbalance(total_bid, total_ask) ==
    IF total_ask >= 1 THEN Frac(total_bid, total_ask)
    ELSE Frac(total_bid * 1000000, 1)

\* The sum of a list of fractions.
RECURSIVE FracSum(_)
FracSum(seq) ==
    IF seq = <<>> THEN [num |-> 0, den |-> 1]
    ELSE LET h == Head(seq)
             t == FracSum(Tail(seq))
         IN  [num |-> h.num * t.den + t.num * h.den, den |-> h.den * t.den]

\* np.mean(self.imbalance_history) > self.threshold
MeanAboveThreshold(history, thr_x2) ==
    LET total == FracSum(history)
    IN  2 * total.num > thr_x2 * Len(history) * total.den

\* np.mean(self.imbalance_history) < (1.0 / self.threshold)
MeanBelowInverse(history, thr_x2) ==
    LET total == FracSum(history)
    IN  thr_x2 * total.num < 2 * Len(history) * total.den

\* append, then pop(0) if the list is longer than the window.
Windowed(history, imbalance, w) ==
    LET appended == Append(history, imbalance)
    IN  IF Len(appended) > w THEN Tail(appended) ELSE appended

NoSignal == [side |-> "None"]
Signal(side, price) == [side |-> side, quantity |-> 50, price |-> price]

\* update(bids, asks): the agent after the call, and the value returned.
\* bid_levels and ask_levels are the arguments bids and asks.
update(agent, bid_levels, ask_levels) ==
    IF bid_levels = <<>> \/ ask_levels = <<>> THEN [agent |-> agent, ret |-> NoSignal]
    ELSE
      LET total_bid == SumQuantities(TopLevels(bid_levels))
          total_ask == SumQuantities(TopLevels(ask_levels))
          history == Windowed(agent.imbalance_history,
                              Imbalance(total_bid, total_ask), agent.window)
          kept == [agent EXCEPT !.imbalance_history = history]
      IN  IF MeanAboveThreshold(history, agent.threshold_x2)
          THEN [agent |-> [kept EXCEPT !.is_detecting = TRUE],
                ret |-> Signal("BUY", bid_levels[1][1])]
          ELSE IF MeanBelowInverse(history, agent.threshold_x2)
          THEN [agent |-> [kept EXCEPT !.is_detecting = TRUE],
                ret |-> Signal("SELL", ask_levels[1][1])]
          ELSE [agent |-> [kept EXCEPT !.is_detecting = FALSE],
                ret |-> NoSignal]

\* Snapshot sides as get_snapshot returns them: (price, volume) pairs, best
\* price first: no level, one level of volume 0, or one to four levels of
\* volume 1 each.
BidPriceAt(i) == 100 - i
AskPriceAt(i) == 100 + i
SnapshotShapes == {<<0, 0>>, <<1, 0>>} \cup {<<n, n>> : n \in 1..4}
BidSide(shape) ==
    [i \in 1..shape[1] |->
        <<BidPriceAt(i), IF i <= shape[2] THEN 1 ELSE 0>>]
AskSide(shape) ==
    [i \in 1..shape[1] |->
        <<AskPriceAt(i), IF i <= shape[2] THEN 1 ELSE 0>>]

Update ==
    \E bid_shape \in SnapshotShapes, ask_shape \in SnapshotShapes :
        LET bids_given == BidSide(bid_shape)
            asks_given == AskSide(ask_shape)
            r == update([window |-> window, threshold_x2 |-> threshold_x2,
                         imbalance_history |-> imbalance_history,
                         is_detecting |-> is_detecting],
                        bids_given, asks_given)
        IN  /\ imbalance_history' = r.agent.imbalance_history
            /\ is_detecting' = r.agent.is_detecting
            /\ update_call' = [bids |-> bids_given, asks |-> asks_given,
                               ret |-> r.ret]
            /\ UNCHANGED <<window, threshold_x2, non_agent_vars>>

AgentNext == Update

\* PredatoryHFTAgent(detection_window, detection_threshold): thresholds
\* 0.5, 1.5 (the one api.py uses) and 2.0 (the default).
AgentConfigs ==
    {[window |-> 1, threshold_x2 |-> 1],
     [window |-> MaxWindow, threshold_x2 |-> 3],
     [window |-> 2, threshold_x2 |-> 4]}

AgentInit ==
    /\ BookInit /\ StrategyIdle /\ GeneratorIdle
    /\ ImpactIdle /\ EnvIdle /\ MultiAssetIdle /\ ApiIdle
    /\ AgentFresh
    /\ \E config \in AgentConfigs :
          /\ window = config.window
          /\ threshold_x2 = config.threshold_x2

SpecAgent == AgentInit /\ [][AgentNext]_vars

----------------------------------------------------------------------------
\* simulator/env.py: TradingEnv.  The environment's own book and generator
\* enter only through the first two observation components, which are
\* drawn; the reward, a return value that no state keeps, is left out.

\* target_side: Side = Side.BUY
TargetSide == "BUY"

\* action_map = [0.0, 0.05, 0.1, 0.2, 0.5, 1.0], in twentieths.
action_map == <<0, 1, 2, 4, 10, 20>>

\* The normalized spread and the top-level imbalance a book can show.
MarketViews ==
    {<<[num |-> 1, den |-> 1], [num |-> 0, den |-> 1]>>,
     <<[num |-> 1, den |-> 100], [num |-> 1, den |-> 3]>>}

\* 1.0 - (self.current_step / self.horizon)
TimeComponent(step, T) == [num |-> T - step, den |-> T]

\* _get_obs(): spread, imbalance, remaining-inventory fraction, time.
get_obs(view, remaining, total, step, T) ==
    <<view[1], view[2], [num |-> remaining, den |-> total],
      TimeComponent(step, T)>>

\* reset(): also called at the end of __init__, which drops the result.
EnvReset ==
    /\ permanent_impact_state' = 0
    /\ impact_log' = <<>>
    /\ remaining_qty' = env_total_quantity
    /\ current_step' = 0
    /\ done' = FALSE
    /\ \E view \in MarketViews :
          obs' = get_obs(view, env_total_quantity, env_total_quantity, 0,
                         env_horizon)
    /\ UNCHANGED <<env_total_quantity, env_horizon, preview, execution,
                   non_env_vars>>

\* trade_qty = int(self.remaining_qty * frac), all of it on the last step.
TradeQty(remaining, step, T, action) ==
    IF step = T - 1 THEN remaining
    ELSE (remaining * action_map[action]) \div 20

\* step(action), called until an episode is done.
EnvStep ==
    /\ ~done
    /\ \E action \in DOMAIN action_map, view \in MarketViews :
          LET trade_qty == TradeQty(remaining_qty, current_step, env_horizon,
                                    action)
              remaining == IF trade_qty > 0 THEN remaining_qty - trade_qty
                           ELSE remaining_qty
          IN  /\ remaining_qty' = remaining
              /\ permanent_impact_state' =
                    IF trade_qty > 0
                    THEN update_state(permanent_impact_state, trade_qty,
                                      TargetSide)
                    ELSE permanent_impact_state
              /\ impact_log' =
                    IF trade_qty > 0
                    THEN Append(impact_log, <<trade_qty, TargetSide>>)
                    ELSE impact_log
              /\ current_step' = current_step + 1
              /\ done' = (current_step + 1 >= env_horizon \/ remaining <= 0)
              /\ obs' = get_obs(view, remaining, env_total_quantity,
                                current_step + 1, env_horizon)
    /\ UNCHANGED <<env_total_quantity, env_horizon, preview, execution,
                   non_env_vars>>

EnvNext == EnvReset \/ EnvStep

\* TradingEnv(total_quantity, horizon), as __init__ leaves it.
EnvInit ==
    /\ BookInit /\ StrategyIdle /\ GeneratorIdle
    /\ ImpactIdle /\ AgentIdle /\ MultiAssetIdle /\ ApiIdle
    /\ env_total_quantity \in 1..(10 * MaxX)
    /\ env_horizon \in 1..MaxT
    /\ remaining_qty = env_total_quantity
    /\ current_step = 0
    /\ done = FALSE
    /\ obs = <<>>

SpecEnv == EnvInit /\ [][EnvNext]_vars

----------------------------------------------------------------------------
\* simulator/generators.py: MultiAssetGenerator.  Prices are offsets from
\* the initial mid 100.0; mid_b is an exact fraction in lowest terms; the
\* results of gen_a.generate_event are drawn, and the two generators' own
\* clocks and counters are left out.

\* mid_b copying the lagged price.
CopyLagged(mid, lagged_a) == [num |-> lagged_a, den |-> 1]

\* self.mid_b += self.correlation * (lagged_a - self.mid_b) * 0.1, with
\* the default correlation 0.8: 2/25 of the gap.
PullToward(mid, lagged_a) ==
    Frac(25 * mid.num + 2 * (lagged_a * mid.den - mid.num), 25 * mid.den)

\* append(self.mid_a); pop(0) if len(self.price_history_a) > lag_steps + 1
AppendLagged(history, price, lag) ==
    LET appended == Append(history, price)
    IN  IF Len(appended) > lag + 1 THEN Tail(appended) ELSE appended

\* The offsets of a LIMIT price of asset A from the mid it was drawn at.
PriceMoves == {-1, 0, 1}

\* generate_events(): is_limit says whether order_a is a LIMIT order, move
\* where its price lies.
GenerateEventsWith(is_limit, move) ==
    LET price == mid_a + move
        history == IF is_limit
                   THEN AppendLagged(price_history_a, price, lag_steps)
                   ELSE price_history_a
    IN  /\ events_generated < MaxCalls
        /\ events_generated' = events_generated + 1
        /\ mid_a' = IF is_limit THEN price ELSE mid_a
        /\ price_history_a' = history
        /\ limit_prices_a' = IF is_limit THEN Append(limit_prices_a, price)
                              ELSE limit_prices_a
        /\ mid_b' = IF Len(history) > lag_steps
                     THEN PullToward(mid_b, history[1])
                     ELSE mid_b
        /\ UNCHANGED <<lag_steps, non_multi_asset_vars>>

\* order_a is a LIMIT order.
GenerateEventsLimit == \E move \in PriceMoves : GenerateEventsWith(TRUE, move)

\* order_a is a MARKET order or None (a cancel).
GenerateEventsOther == GenerateEventsWith(FALSE, 0)

MultiAssetNext == GenerateEventsLimit \/ GenerateEventsOther

\* MultiAssetGenerator(lag_steps=...)
MultiAssetInit ==
    /\ BookInit /\ StrategyIdle /\ GeneratorIdle
    /\ ImpactIdle /\ AgentIdle /\ EnvIdle /\ ApiIdle
    /\ lag_steps \in 0..MaxLag
    /\ price_history_a = <<>>
    /\ mid_a = 0
    /\ mid_b = [num |-> 0, den |-> 1]
    /\ limit_prices_a = <<>>
    /\ events_generated = 0

SpecMultiAsset == MultiAssetInit /\ [][MultiAssetNext]_vars

----------------------------------------------------------------------------
\* api.py: the request handlers.  They are plain "def" functions, which the
\* server runs on the threads of a pool, and api.py takes no lock: a thread
\* may be scheduled between any two statements of a handler.  Each part of
\* the Simulator counts the ticks applied to it; the statements of
\* Simulator.step that touch neither book, generator, predator nor mid
\* price are left out.

Handlers == {"run_step", "get_state", "reset", "set_regime"}

\* The first statement of each handler.
FirstStatement(handler) ==
    CASE handler = "run_step" -> "generate_event"
      [] handler = "get_state" -> "get_snapshot"
      [] handler = "reset" -> "Simulator"
      [] handler = "set_regime" -> "set_regime"

\* A request arrives and an idle thread of the pool starts its handler;
\* "sim.step()" binds the Simulator the global name holds at that moment.
Accept(w, handler) ==
    /\ workers[w].handler = "idle"
    /\ requests_started < MaxRequests
    /\ requests_started' = requests_started + 1
    /\ workers' = [workers EXCEPT ![w] =
                      [handler |-> handler, pc |-> FirstStatement(handler),
                       self |-> sim.generation, seen |-> <<>>,
                       response |-> <<>>]]
    /\ UNCHANGED <<sim, non_api_vars>>

\* One statement of Simulator.step run by w on the Simulator it bound: a
\* Simulator that reset() has replaced meanwhile is no longer the global.
StepStatement(w, at, part, next) ==
    /\ workers[w].handler = "run_step"
    /\ workers[w].pc = at
    /\ sim' = IF workers[w].self = sim.generation
              THEN [sim EXCEPT ![part] = @ + 1]
              ELSE sim
    /\ workers' = [workers EXCEPT ![w].pc = next]
    /\ UNCHANGED <<requests_started, non_api_vars>>

\* self.generator.generate_event(self.mid_price)
StepGenerateEvent(w) ==
    StepStatement(w, "generate_event", "generator", "add_order")

\* self.lob.add_order(order)
StepAddOrder(w) == StepStatement(w, "add_order", "lob", "predator_update")

\* self.predator.update(bids, asks); self.is_predator_active = ...
StepPredatorUpdate(w) ==
    StepStatement(w, "predator_update", "predator", "mid_price")

\* self.mid_price = (best_bid + best_ask) / 2.0; then "return get_state()"
StepMidPrice(w) == StepStatement(w, "mid_price", "mid_price", "get_snapshot")

\* get_state: bids, asks = sim.lob.get_snapshot(10)
GetStateSnapshot(w) ==
    /\ workers[w].pc = "get_snapshot"
    /\ workers' = [workers EXCEPT ![w].pc = "read_fields",
                                  ![w].seen = <<sim.generation, sim.lob>>]
    /\ UNCHANGED <<sim, requests_started, non_api_vars>>

\* get_state: the return statement reads sim.mid_price and the rest.
GetStateReturn(w) ==
    /\ workers[w].pc = "read_fields"
    /\ workers' = [workers EXCEPT ![w] =
                      [IdleWorker EXCEPT !.response =
                          <<workers[w].seen,
                            <<sim.generation, sim.mid_price>>>>]]
    /\ UNCHANGED <<sim, requests_started, non_api_vars>>

\* reset: sim = Simulator(); then "return get_state()"
ResetSimulator(w) ==
    /\ workers[w].pc = "Simulator"
    /\ sim' = NewSimulator(sim.generation + 1)
    /\ workers' = [workers EXCEPT ![w].pc = "get_snapshot"]
    /\ UNCHANGED <<requests_started, non_api_vars>>

\* set_regime: self.current_regime = regime, the first assignment of
\* OrderFlowGenerator.set_regime.
SetRegimeName(w) ==
    /\ workers[w].pc = "set_regime"
    /\ \E regime \in {"LOW_VOLATILITY", "HIGH_VOLATILITY"} :
          sim' = [sim EXCEPT !.current_regime = regime]
    /\ workers' = [workers EXCEPT ![w].pc = "set_hawkes"]
    /\ UNCHANGED <<requests_started, non_api_vars>>

\* set_regime: self.hawkes.mu = ...; self.hawkes.alpha = ...
SetRegimeHawkes(w) ==
    /\ workers[w].pc = "set_hawkes"
    /\ sim' = [sim EXCEPT !.hawkes_regime = sim.current_regime]
    /\ workers' = [workers EXCEPT ![w].pc = "return_regime"]
    /\ UNCHANGED <<requests_started, non_api_vars>>

\* set_regime: return {"status": ..., "regime": sim.generator.current_regime}
SetRegimeReturn(w) ==
    /\ workers[w].pc = "return_regime"
    /\ workers' = [workers EXCEPT ![w] =
                      [IdleWorker EXCEPT !.response = <<sim.current_regime>>]]
    /\ UNCHANGED <<sim, requests_started, non_api_vars>>

ApiNext ==
    \E w \in Workers :
        \/ \E handler \in Handlers : Accept(w, handler)
        \/ StepGenerateEvent(w) \/ StepAddOrder(w)
        \/ StepPredatorUpdate(w) \/ StepMidPrice(w)
        \/ GetStateSnapshot(w) \/ GetStateReturn(w)
        \/ ResetSimulator(w)
        \/ SetRegimeName(w) \/ SetRegimeHawkes(w) \/ SetRegimeReturn(w)

ApiInit ==
    /\ BookInit /\ StrategyIdle /\ GeneratorIdle
    /\ ImpactIdle /\ AgentIdle /\ EnvIdle /\ MultiAssetIdle
    /\ ApiIdle

SpecApi == ApiInit /\ [][ApiNext]_vars

----------------------------------------------------------------------------
\* Vocabulary of the properties

\* The ids of the orders sitting in the deques of one side's dictionary.
QueueIds(d) == UNION {{d[p][i] : i \in 1..Len(d[p])} : p \in DOMAIN d}

RestingBids == QueueIds(bids)
RestingAsks == QueueIds(asks)
Resting == RestingBids \cup RestingAsks

RestingOn(side) == IF side = "BUY" THEN RestingBids ELSE RestingAsks

\* The prices at which at least one order rests.
LiveLevels(d) == {p \in DOMAIN d : d[p] # <<>>}

SetMax(S) == CHOOSE x \in S : \A y \in S : y <= x
SetMin(S) == CHOOSE x \in S : \A y \in S : x <= y

RECURSIVE SumQuantity(_)
SumQuantity(trd) ==
    IF trd = <<>> THEN 0 ELSE Head(trd).quantity + SumQuantity(Tail(trd))

----------------------------------------------------------------------------
\* simulator/impact.py: ImpactAwareOrderBook, an OrderBook with a
\* MarketImpactModel.  Mid prices are doubled to stay in whole numbers.

\* get_mid_price: (bid + ask) / 2.0, doubled, or None; both lookups run
\* with their lazy heap clean-up.
get_mid_price(b) ==
    LET bid == get_best_bid(b)
        ask == get_best_ask(bid.book)
    IN  [book |-> ask.book,
         ret |-> IF bid.ret # None /\ ask.ret # None
                 THEN bid.ret + ask.ret ELSE None]

\* "mid_price = 100.0 # Fallback", doubled.
FallbackMidX2 == 200

\* sum(t.price * t.quantity for t in trades)
RECURSIVE SumNotional(_)
SumNotional(trd) ==
    IF trd = <<>> THEN 0
    ELSE Head(trd).price * Head(trd).quantity + SumNotional(Tail(trd))

\* The impact booked for what was filled only.
FilledQuantity(order, trd) == SumQuantity(trd)

\* update_state(order.quantity, order.side): the quantity submitted.
SubmittedQuantity(order, trd) == order.quantity

\* "if mid_price is None: mid_price = 100.0"
MidOrFallback(mid_x2) == IF mid_x2 = None THEN FallbackMidX2 ELSE mid_x2

\* liquidity = sum(v for p, v in asks) for a BUY, in bids for a SELL.
OpposingLiquidity(side, snapshot) ==
    IF side = "BUY" THEN SumQuantities(snapshot.asks)
    ELSE SumQuantities(snapshot.bids)

\* abs(realized_avg_price - mid_price), the average taken over the trades,
\* or at the mid price when there are none.
TotalImpactCost(trd, mid_price_x2) ==
    IF trd = <<>> THEN Frac(0, 1)
    ELSE Frac(Abs(2 * SumNotional(trd) - mid_price_x2 * SumQuantity(trd)),
              2 * SumQuantity(trd))

\* Steps 4 and 5: update_state and the pair returned.  What the call
\* leaves behind: the book, the impact state, the calls made in order and
\* the return value.
ExecutionUpdated(added, order, liquidity, mid_price_x2, state) ==
    [book |-> added.book,
     state |-> update_state(state, SubmittedQuantity(order, added.trades),
                            order.side),
     calls |-> <<[op |-> "get_execution_price",
                  trade_size |-> order.quantity, side |-> order.side,
                  current_mid_x2 |-> mid_price_x2,
                  market_liquidity |-> liquidity,
                  state |-> PreTradeState(state,
                                PermImpact(order.quantity, order.side))],
                 [op |-> "add_order", order_id |-> order.order_id],
                 [op |-> "update_state",
                  trade_size |-> SubmittedQuantity(order, added.trades),
                  side |-> order.side]>>,
     ret |-> [trades |-> added.trades,
              total_impact_cost |->
                  TotalImpactCost(added.trades, mid_price_x2)]]

\* Steps 2 and 3: the liquidity estimate and get_execution_price, whose
\* triple is not used afterwards, then add_order.
ExecutionPreviewed(snapshot, order_id, mid_price_x2, state) ==
    ExecutionUpdated(add_order(snapshot.book, order_id),
                     snapshot.book.pool[order_id],
                     OpposingLiquidity(snapshot.book.pool[order_id].side,
                                       snapshot.ret),
                     mid_price_x2, state)

\* Step 1 ends: get_snapshot(5) on the book the mid-price lookups left.
ExecutionSnapshot(mid, order_id, state) ==
    ExecutionPreviewed(get_snapshot(mid.book, 5), order_id,
                       MidOrFallback(mid.ret), state)

\* execute_market_order_with_impact(order)
execute_market_order_with_impact(b, state, order_id) ==
    ExecutionSnapshot(get_mid_price(b), order_id, state)

\* The state after the call that returned r.
ExecutionApplied(r, order_id, quantity, side) ==
    /\ SetBook(r.book)
    /\ returned' = [order_id |-> order_id, trades |-> r.ret.trades]
    /\ permanent_impact_state' = r.state
    /\ impact_log' = Append(impact_log, <<quantity, side>>)
    /\ execution' = [count |-> execution.count + 1,
                     order_id |-> order_id,
                     calls |-> r.calls,
                     trades |-> r.ret.trades,
                     total_impact_cost |-> r.ret.total_impact_cost]

\* The caller builds a MARKET order and executes it with impact.
ExecuteMarketOrderWithImpact ==
    /\ order_id_counter <= MaxOrders
    /\ \E side \in Sides, quantity \in Quantities :
          ExecutionApplied(
              execute_market_order_with_impact(
                  [Book EXCEPT !.pool = @ @@
                      (order_id_counter :>
                          Order(order_id_counter, side, "MARKET",
                                MarketPrice, quantity))],
                  permanent_impact_state, order_id_counter),
              order_id_counter, quantity, side)
    /\ order_id_counter' = order_id_counter + 1
    /\ UNCHANGED <<preview, strategy_vars, generator_vars, agent_vars,
                   env_vars, multi_asset_vars, api_vars>>

\* An ImpactAwareOrderBook: limit orders, cancels and market orders
\* executed with impact.
ImpactBookNext == AddLimit \/ Cancel \/ ExecuteMarketOrderWithImpact

SpecImpactBook == Init /\ [][ImpactBookNext]_vars

\* The order passed to the latest add_order call, once there was one.
Called == returned.order_id # 0
Taker == order_pool[returned.order_id]

\* C1: whenever both sides have a resting order, get_best_bid() is strictly
\* below get_best_ask(): the book is never crossed or locked.
NoCrossedBook ==
    LET best_bid == get_best_bid(Book).ret
        best_ask == get_best_ask(Book).ret
    IN  /\ (best_bid # None /\ best_ask # None) => best_bid < best_ask
        /\ \A p \in LiveLevels(bids), q \in LiveLevels(asks) : p < q

\* A LIMIT order has traded and its residual rests opposite a live side.
WitnessNoCrossedBook ==
    /\ Called
    /\ returned.trades # <<>>
    /\ returned.order_id \in Resting
    /\ get_best_bid(Book).ret # None
    /\ get_best_ask(Book).ret # None

\* C2: every trade carries the price of the maker it was matched against,
\* which is the price of the level the maker was queued at, for BUY and SELL
\* and for LIMIT and MARKET takers.
TradePriceIsMakerPrice ==
    /\ \A i \in 1..Len(trades) :
          trades[i].price = order_pool[trades[i].maker_order_id].price
    /\ \A i \in 1..Len(returned.trades) :
          returned.trades[i].price =
              order_pool[returned.trades[i].maker_order_id].price
    /\ \A p \in DOMAIN bids : \A i \in 1..Len(bids[p]) :
          order_pool[bids[p][i]].price = p
    /\ \A p \in DOMAIN asks : \A i \in 1..Len(asks[p]) :
          order_pool[asks[p][i]].price = p

\* A LIMIT taker traded away from its own limit, and a MARKET taker traded.
WitnessTradePriceIsMakerPrice ==
    /\ \E i \in 1..Len(trades) :
          /\ order_pool[trades[i].taker_order_id].order_type = "LIMIT"
          /\ order_pool[trades[i].taker_order_id].price # trades[i].price
    /\ \E i \in 1..Len(trades) :
          order_pool[trades[i].taker_order_id].order_type = "MARKET"

PricePriority ==
    Called =>
      \A i \in 1..Len(returned.trades) :
        LET price == returned.trades[i].price
        IN  IF Taker.side = "BUY"
            THEN /\ \A j \in 1..(i - 1) : returned.trades[j].price =< price
                 /\ \A a \in RestingAsks : ~(order_pool[a].price < price)
            ELSE /\ \A j \in 1..(i - 1) : returned.trades[j].price >= price
                 /\ \A a \in RestingBids : ~(order_pool[a].price > price)

\* One call traded at two different prices.
WitnessPricePriority ==
    /\ Len(returned.trades) >= 2
    /\ returned.trades[1].price # returned.trades[2].price

\* C5: a LIMIT taker never trades through its limit, and when its call ends
\* it is either filled or no opposing order at a marketable price rests, so
\* a resting residual never faces an order it could have matched.
LimitRespected ==
    (Called /\ Taker.order_type = "LIMIT") =>
      /\ \A i \in 1..Len(returned.trades) :
            IF Taker.side = "BUY"
            THEN returned.trades[i].price =< Taker.price
            ELSE returned.trades[i].price >= Taker.price
      /\ \/ remaining_quantity(Taker) = 0
         \/ \A a \in RestingOn(Opposite(Taker.side)) :
               IF Taker.side = "BUY"
               THEN order_pool[a].price > Taker.price
               ELSE order_pool[a].price < Taker.price

\* A LIMIT taker traded, rests with a residual and still faces resting
\* orders, all beyond its limit.
WitnessLimitRespected ==
    /\ Called
    /\ Taker.order_type = "LIMIT"
    /\ returned.trades # <<>>
    /\ remaining_quantity(Taker) > 0
    /\ returned.order_id \in Resting
    /\ RestingOn(Opposite(Taker.side)) # {}

\* C6: 0 <= filled_quantity <= quantity for every order ever passed to
\* add_order, and the trades returned by a call sum to at most the quantity
\* of the order passed.
FilledWithinQuantity ==
    /\ \A id \in DOMAIN order_pool :
          /\ 0 =< order_pool[id].filled_quantity
          /\ order_pool[id].filled_quantity =< order_pool[id].quantity
    /\ Called => SumQuantity(returned.trades) =< Taker.quantity

\* A taker was filled in two trades, and some maker is partly filled.
WitnessFilledWithinQuantity ==
    /\ Len(returned.trades) = 2
    /\ SumQuantity(returned.trades) = Taker.quantity
    /\ \E id \in Resting :
          /\ order_pool[id].filled_quantity > 0
          /\ remaining_quantity(order_pool[id]) > 0

\* The orders resting on one side with the state of each: what a call may
\* not disturb when it "changes no resting order".
RestingView(d, pool) ==
    [p \in LiveLevels(d) |-> [i \in 1..Len(d[p]) |-> pool[d[p][i]]]]

\* A step that is an add_order call: the caller's order id advances.
AddStep == order_id_counter' # order_id_counter
NewOrder == order_pool'[order_id_counter]

\* C7: a MARKET order never rests: it is in no level and not in the id
\* index, whatever it left unfilled; its call leaves the taker's own side
\* untouched, and with nothing resting on the opposing side it returns no
\* trade and changes no resting order.
MarketNeverRests ==
    [][/\ \A id \in DOMAIN order_pool' :
             order_pool'[id].order_type = "MARKET" =>
                 id \notin orders' /\ id \notin QueueIds(bids')
                                   /\ id \notin QueueIds(asks')
       /\ (AddStep /\ NewOrder.order_type = "MARKET") =>
             /\ IF NewOrder.side = "BUY"
                THEN bids' = bids /\ bid_prices' = bid_prices
                ELSE asks' = asks /\ ask_prices' = ask_prices
             /\ RestingOn(Opposite(NewOrder.side)) = {} =>
                   /\ returned'.trades = <<>>
                   /\ trades' = trades
                   /\ orders' = orders
                   /\ RestingView(bids', order_pool')
                          = RestingView(bids, order_pool)
                   /\ RestingView(asks', order_pool')
                          = RestingView(asks, order_pool)
      ]_vars

\* A MARKET order exhausted the opposing side and its remainder was dropped
\* while orders rest on its own side.
WitnessMarketNeverRests ==
    /\ Called
    /\ Taker.order_type = "MARKET"
    /\ returned.trades # <<>>
    /\ remaining_quantity(Taker) > 0
    /\ RestingOn(Taker.side) # {}

\* C8: after add_order of a LIMIT order the order rests if and only if it
\* has remaining quantity; a resting residual is the last order of the deque
\* at its own price on its own side (the level exists), it is in the id
\* index, and its remaining quantity is its quantity less its trades.
LimitResidualPosted ==
    [][(AddStep /\ NewOrder.order_type = "LIMIT") =>
          LET id == order_id_counter
              d == IF NewOrder.side = "BUY" THEN bids' ELSE asks'
              other == IF NewOrder.side = "BUY" THEN asks' ELSE bids'
          IN  /\ remaining_quantity(NewOrder)
                    = NewOrder.quantity - SumQuantity(returned'.trades)
              /\ (id \in QueueIds(d)) <=> (remaining_quantity(NewOrder) > 0)
              /\ (id \in orders') <=> (remaining_quantity(NewOrder) > 0)
              /\ id \notin QueueIds(other)
              /\ remaining_quantity(NewOrder) > 0 =>
                    /\ NewOrder.price \in DOMAIN d
                    /\ d[NewOrder.price] # <<>>
                    /\ d[NewOrder.price][Len(d[NewOrder.price])] = id
                    /\ \A p \in DOMAIN d : \A i \in 1..Len(d[p]) :
                          d[p][i] = id =>
                              p = NewOrder.price /\ i = Len(d[p])
      ]_vars

\* A LIMIT order was partly filled and its residual opened a new level next
\* to a level already live on its side.
WitnessLimitResidualPosted ==
    /\ Called
    /\ Taker.order_type = "LIMIT"
    /\ returned.trades # <<>>
    /\ remaining_quantity(Taker) > 0
    /\ LET d == IF Taker.side = "BUY" THEN bids ELSE asks
       IN  /\ Taker.price \in DOMAIN d
           /\ d[Taker.price] = <<returned.order_id>>
           /\ Cardinality(LiveLevels(d)) >= 2

\* The best prices read off the level deques themselves.
HighestLiveBid ==
    IF LiveLevels(bids) = {} THEN None ELSE SetMax(LiveLevels(bids))

LowestLiveAsk ==
    IF LiveLevels(asks) = {} THEN None ELSE SetMin(LiveLevels(asks))

\* C9: get_best_bid() is the highest price at which a BUY order rests and
\* get_best_ask() the lowest price at which a SELL order rests, None exactly
\* when the side has no resting order, after any sequence of calls.
BestPricesAreLive ==
    /\ get_best_bid(Book).ret = HighestLiveBid
    /\ get_best_ask(Book).ret = LowestLiveAsk

\* The head of a heap names a level that was cancelled away while a
\* worse-priced level of that side is live: the next-best level is the best.
WitnessBestPricesAreLive ==
    \/ /\ LiveLevels(asks) # {}
       /\ ~HeapEmpty(ask_prices)
       /\ HeapTop(ask_prices) \notin LiveLevels(asks)
    \/ /\ LiveLevels(bids) # {}
       /\ ~HeapEmpty(bid_prices)
       /\ BidKey(HeapTop(bid_prices)) \notin LiveLevels(bids)

\* C10: cancel_order(id) for an id that is not resting returns False and
\* leaves the levels, the resting orders, the id index and the trade log as
\* they were.
CancelOfNonResting ==
    \A id \in 1..order_id_counter :
        id \notin Resting =>
            LET r == cancel_order(Book, id)
            IN  ~r.ret /\ r.book = Book

\* Next to resting orders there are a maker that was filled, a MARKET order,
\* a cancelled order and an id never submitted.
WitnessCancelOfNonResting ==
    /\ order_id_counter \notin DOMAIN order_pool
    /\ \E id \in DOMAIN order_pool :
          /\ order_pool[id].order_type = "LIMIT"
          /\ remaining_quantity(order_pool[id]) = 0
          /\ id \notin Resting
          /\ \E i \in 1..Len(trades) : trades[i].maker_order_id = id
    /\ \E id \in DOMAIN order_pool : order_pool[id].order_type = "MARKET"
    /\ \E id \in DOMAIN order_pool :
          /\ order_pool[id].order_type = "LIMIT"
          /\ remaining_quantity(order_pool[id]) > 0
          /\ id \notin Resting

\* C11: cancellation is idempotent: for every resting order id,
\* cancel_order(id) returns True, an immediately repeated cancel_order(id)
\* returns False, and the book after the second call equals the book after
\* the first.
CancelIdempotent ==
    \A id \in Resting :
        LET first == cancel_order(Book, id)
            second == cancel_order(first.book, id)
        IN  /\ first.ret
            /\ ~second.ret
            /\ second.book = first.book

\* An order was cancelled with quantity left and its level entry was
\* deleted with it, while other orders still rest.
WitnessCancelIdempotent ==
    /\ Resting # {}
    /\ \E id \in DOMAIN order_pool :
          /\ order_pool[id].order_type = "LIMIT"
          /\ remaining_quantity(order_pool[id]) > 0
          /\ id \notin Resting
          /\ order_pool[id].price
                 \notin DOMAIN (IF order_pool[id].side = "BUY"
                                THEN bids ELSE asks)

\* A level queue without one id, the others in their order.
Without(level, id) == SelectSeq(level, LAMBDA x : x # id)

\* C12: a successful cancel_order(id) removes exactly that order, unfilled
\* or partly filled, from its level queue and from the id index and changes
\* nothing else: the other orders of its price keep their FIFO order and
\* remaining quantities, every other level of both sides, the heaps and the
\* trade log are unchanged, and no trade is emitted.
CancelRemovesExactlyOne ==
    \A id \in Resting :
        LET order == order_pool[id]
            r == cancel_order(Book, id)
            before == SideDict(Book, order.side)
            after == SideDict(r.book, order.side)
        IN  /\ r.ret
            /\ r.book.orders = orders \ {id}
            /\ id \notin QueueIds(after)
            /\ IF Without(before[order.price], id) = <<>>
               THEN order.price \notin DOMAIN after
               ELSE /\ order.price \in DOMAIN after
                    /\ after[order.price] = Without(before[order.price], id)
            /\ DOMAIN after \ {order.price} = DOMAIN before \ {order.price}
            /\ \A p \in DOMAIN before \ {order.price} : after[p] = before[p]
            /\ SideDict(r.book, Opposite(order.side))
                   = SideDict(Book, Opposite(order.side))
            /\ r.book.pool = order_pool
            /\ r.book.trades = trades
            /\ r.book.trade_id_counter = trade_id_counter
            /\ r.book.bid_prices = bid_prices
            /\ r.book.ask_prices = ask_prices

\* A partly filled order was cancelled from the head of a level where a
\* later order still rests, and some level holds two orders.
WitnessCancelRemovesExactlyOne ==
    /\ \E id \in DOMAIN order_pool, other \in Resting :
          /\ order_pool[id].order_type = "LIMIT"
          /\ order_pool[id].filled_quantity > 0
          /\ remaining_quantity(order_pool[id]) > 0
          /\ id \notin Resting
          /\ order_pool[other].side = order_pool[id].side
          /\ order_pool[other].price = order_pool[id].price
          /\ id < other

\* C13: after any sequence of add_order, cancel_order and best-price or
\* spread lookups, get_snapshot(n) returns an empty sequence for a side on
\* which no order rests.
SnapshotEmptyForEmptySide ==
    \A n_levels \in SnapshotDepths :
        LET snapshot == get_snapshot(Book, n_levels).ret
        IN  /\ RestingBids = {} => snapshot.bids = <<>>
            /\ RestingAsks = {} => snapshot.asks = <<>>

\* The total of the remaining quantities of a set of orders.
RECURSIVE SumRemaining(_)
SumRemaining(ids) ==
    IF ids = {} THEN 0
    ELSE LET id == CHOOSE x \in ids : TRUE
         IN  remaining_quantity(order_pool[id]) + SumRemaining(ids \ {id})

\* The orders resting on one side whose own price is the one given.
RestingAt(side, price) ==
    {id \in RestingOn(side) : order_pool[id].price = price}

\* One side of a snapshot is well formed: at most n_levels pairs, prices
\* strictly monotone, each quantity the remaining total of its price.
SideWellFormed(snapshot, side, n_levels) ==
    /\ Len(snapshot) <= n_levels
    /\ \A i \in 1..(Len(snapshot) - 1) :
          IF side = "BUY" THEN snapshot[i][1] > snapshot[i + 1][1]
                          ELSE snapshot[i][1] < snapshot[i + 1][1]
    /\ \A i \in 1..Len(snapshot) :
          snapshot[i][2] = SumRemaining(RestingAt(side, snapshot[i][1]))

\* C14: get_snapshot(n) returns for each side at most n (price, quantity)
\* pairs, prices strictly descending for bids and strictly ascending for
\* asks, each quantity the sum of the remaining (not original) quantities
\* of the orders resting at that price; the call changes no order, level or
\* heap.
SnapshotWellFormed ==
    \A n_levels \in SnapshotDepths :
        LET r == get_snapshot(Book, n_levels)
        IN  /\ SideWellFormed(r.ret.bids, "BUY", n_levels)
            /\ SideWellFormed(r.ret.asks, "SELL", n_levels)
            /\ r.book = Book

\* A side has two live levels, so a snapshot of depth 1 truncates it, and
\* a partly filled order rests.
WitnessSnapshotWellFormed ==
    /\ \/ Cardinality(LiveLevels(bids)) >= 2
       \/ Cardinality(LiveLevels(asks)) >= 2
    /\ \E id \in Resting :
          /\ order_pool[id].filled_quantity > 0
          /\ remaining_quantity(order_pool[id]) > 0
    /\ \E n_levels \in SnapshotDepths :
          LET snapshot == get_snapshot(Book, n_levels).ret
          IN  Len(snapshot.bids) = n_levels \/ Len(snapshot.asks) = n_levels

\* C15: get_spread() returns None exactly when at least one side has no
\* resting order, and otherwise returns get_best_ask() minus
\* get_best_bid(), which is strictly positive.
SpreadIsAskMinusBid ==
    LET spread == get_spread(Book).ret
    IN  /\ (spread = None) <=> (RestingBids = {} \/ RestingAsks = {})
        /\ spread # None =>
              /\ spread = get_best_ask(Book).ret - get_best_bid(Book).ret
              /\ spread = LowestLiveAsk - HighestLiveBid
              /\ spread > 0

\* Both sides are live and a heap still carries an entry left behind by a
\* cancellation, next to the entries of the live levels.
WitnessSpreadIsAskMinusBid ==
    /\ RestingBids # {}
    /\ RestingAsks # {}
    /\ \/ BagCardinality(bid_prices) > Cardinality(LiveLevels(bids))
       \/ BagCardinality(ask_prices) > Cardinality(LiveLevels(asks))
    /\ get_spread(Book).ret = LowestLiveAsk - HighestLiveBid

\* C16: for every total quantity X >= 0 and horizon T >= 1 the TWAP
\* schedule has T entries that sum to X; the first (X mod T) entries equal
\* (X div T) + 1 and all the others equal (X div T).
TWAPScheduleExact ==
    strategy = "TWAP" =>
        /\ Len(schedule) = horizon
        /\ SumSeq(schedule) = total_quantity
        /\ \A i \in 1..horizon :
              schedule[i] = IF i <= total_quantity % horizon
                            THEN (total_quantity \div horizon) + 1
                            ELSE total_quantity \div horizon

\* A TWAP schedule with a remainder spread over some, not all, steps.
WitnessTWAPScheduleExact ==
    /\ strategy = "TWAP"
    /\ horizon >= 3
    /\ total_quantity % horizon >= 2
    /\ schedule[1] = schedule[horizon] + 1

\* C17: for every X >= 0, T >= 1 and volume profile of length T with
\* non-negative integer entries and positive total, the VWAP schedule has T
\* integer entries that sum to X.
VWAPScheduleSums ==
    strategy = "VWAP" =>
        /\ Len(schedule) = horizon
        /\ \A i \in 1..horizon : schedule[i] \in Int
        /\ SumSeq(schedule) = total_quantity

\* A VWAP schedule whose truncated proportions fell short of X, and whose
\* repair gave the missing unit to a first step of zero expected volume.
WitnessVWAPScheduleSums ==
    /\ strategy = "VWAP"
    /\ horizon >= 2
    /\ market_volume_profile[1] = 0
    /\ LET total == SumSeq(market_volume_profile)
           truncated == [i \in 1..horizon |->
                            (market_volume_profile[i] * total_quantity)
                                \div total]
       IN  total_quantity - SumSeq(truncated) >= 1
    /\ schedule[1] = 1

\* C18: for every X >= 0 and T >= 1 the Almgren-Chriss schedule has T
\* integer entries that sum to X, whatever the rounded per-step differences
\* of the trajectory are: the whole rounding residual goes to the last step.
AlmgrenChrissScheduleSums ==
    strategy = "AlmgrenChriss" =>
        /\ Len(schedule) = horizon
        /\ \A i \in 1..horizon : schedule[i] \in Int
        /\ SumSeq(schedule) = total_quantity

\* An Almgren-Chriss schedule of the linear trajectory whose rounded trades
\* did not add up to X, so that the last step took a residual.
WitnessAlmgrenChrissScheduleSums ==
    /\ strategy = "AlmgrenChriss"
    /\ risk_aversion = 0
    /\ SumSeq(LinearTrades(total_quantity, horizon)) # total_quantity
    /\ schedule # LinearTrades(total_quantity, horizon)

\* C19 as stated: with risk aversion 0 the Almgren-Chriss schedule equals
\* the TWAP schedule of the same X and T, for every X >= 0 and T >= 1.
LinearEqualsTWAP ==
    (strategy = "AlmgrenChriss" /\ risk_aversion = 0) =>
        schedule = twap_schedule(total_quantity, horizon)

\* C19, amended: with risk aversion 0 the Almgren-Chriss schedule equals
\* the TWAP schedule of the same X and T whenever T divides X.
LinearEqualsTWAPWhenDivisible ==
    (/\ strategy = "AlmgrenChriss"
     /\ risk_aversion = 0
     /\ total_quantity % horizon = 0) =>
        schedule = twap_schedule(total_quantity, horizon)

\* A linear Almgren-Chriss schedule of several steps with T dividing X > 0.
WitnessLinearEqualsTWAPWhenDivisible ==
    /\ strategy = "AlmgrenChriss"
    /\ risk_aversion = 0
    /\ horizon >= 2
    /\ total_quantity > 0
    /\ total_quantity % horizon = 0
    /\ schedule[1] = total_quantity \div horizon

\* C20: the value generate_next_arrival returns is the time elapsed on the
\* Hawkes clock during that call, the waits of rejected candidates
\* included, so after any number of Hawkes-mode generate_event calls
\* OrderFlowGenerator.current_time equals the latest accepted arrival time
\* of the Hawkes history.
ReturnedWaitIsElapsedTime ==
    (pc = "idle" /\ hawkes_history # <<>>) =>
        /\ event.dt = hawkes_current_time - call_start
        /\ current_time = hawkes_history[Len(hawkes_history)]

\* A step in which a generate_event call returns: its clock has advanced.
GenerateEventReturns == current_time' # current_time

\* C21: every LIMIT order produced by generate_event(mid) is priced on the
\* passive side of the reference mid-price: a BUY at or below mid and a SELL
\* at or above mid, for every value of the normal draw.
LimitPricedPassively ==
    event.order.order_type = "LIMIT" =>
        IF event.order.side = "BUY"
        THEN event.order.price <= event.mid_price
        ELSE event.order.price >= event.mid_price

\* C22: after any sequence of generate_next_arrival calls the Hawkes history
\* holds at most 100 entries, and they are the most recently accepted
\* arrival times in non-decreasing order: an accepted arrival goes to the
\* end, and the oldest entry is the one evicted when a 101st arrives.
HistoryKeepsLatestArrivals ==
    /\ [](/\ Len(hawkes_history) <= HistoryCap
          /\ \A i \in 1..(Len(hawkes_history) - 1) :
                hawkes_history[i] <= hawkes_history[i + 1]
          /\ (pc = "idle" /\ hawkes_history # <<>>) =>
                hawkes_history[Len(hawkes_history)] = hawkes_current_time)
    /\ [][hawkes_history' # hawkes_history =>
             hawkes_history' =
                 IF Len(hawkes_history) < HistoryCap
                 THEN Append(hawkes_history, hawkes_current_time')
                 ELSE Append(Tail(hawkes_history), hawkes_current_time')
         ]_vars

\* The history is full and its two oldest arrivals have been evicted.
WitnessHistoryKeepsLatestArrivals ==
    /\ Len(hawkes_history) = HistoryCap
    /\ hawkes_history[1] = 3
    /\ pc = "idle"
    /\ hawkes_history[HistoryCap] = hawkes_current_time

\* The factors of a regime.
RateFactor(regime) == IF regime = "HIGH_VOLATILITY" THEN 3 ELSE 1
StdFactorX2(regime) == IF regime = "HIGH_VOLATILITY" THEN 5 ELSE 2

\* C23: the rate and price dispersion used by a generate_event call depend
\* only on the regime current at that call: base rate x3 and base sigma
\* x2.5 when HIGH_VOLATILITY, the base values otherwise; set_regime never
\* alters the base parameters, so set_regime calls never compound, and
\* back in LOW_VOLATILITY the Hawkes mu and alpha are the initial ones.
RegimeScalesFromBase ==
    /\ [](/\ hawkes_mu = base_lambda * RateFactor(current_regime)
          /\ hawkes_alpha =
                IF current_regime = "HIGH_VOLATILITY" THEN 8 ELSE 6)
    /\ [][/\ base_lambda' = base_lambda
           /\ price_std' = price_std
           /\ GenerateEventReturns =>
                 /\ current_regime' = current_regime
                 /\ event'.rate = base_lambda * RateFactor(current_regime)
                 /\ event'.price_std_x2
                        = price_std * StdFactorX2(current_regime)
         ]_vars

\* An event was generated at the tripled rate of a doubled base, and the
\* regime has since been set back to LOW_VOLATILITY.
WitnessRegimeScalesFromBase ==
    /\ base_lambda = 2
    /\ event.rate = 6
    /\ event.price_std_x2 = 10
    /\ current_regime = "LOW_VOLATILITY"
    /\ hawkes_mu = 2

\* C24: every generate_event result is either (dt, Order, False) with a
\* LIMIT or MARKET order, or (dt, None, True): is_cancel is True exactly
\* when no Order object is returned, and a cancel event carries no target
\* order id and consumes no order id.
EventIsOrderOrCancel ==
    /\ [](event # NoEvent =>
             /\ event.dt \in Waits
             /\ event.is_cancel <=> (event.order = NoOrder)
             /\ IF event.is_cancel
                THEN "order_id" \notin DOMAIN event.order
                ELSE /\ event.order.order_type \in {"LIMIT", "MARKET"}
                     /\ event.order.order_id
                            = generator_order_id_counter - 1)
    /\ [][GenerateEventReturns =>
             generator_order_id_counter' =
                 IF event'.is_cancel THEN generator_order_id_counter
                 ELSE generator_order_id_counter + 1
         ]_vars

\* A cancel event was returned after an order had taken an id.
WitnessEventIsOrderOrCancel ==
    /\ event.is_cancel
    /\ event.order = NoOrder
    /\ generator_order_id_counter >= 2

\* The calls get_execution_price may be given.
PreviewArguments ==
    [trade_size : TradeSizes, side : Sides, current_mid : CurrentMids,
     market_liquidity : Liquidities]

PreviewOf(state, a) ==
    get_execution_price(state, a.trade_size, a.side, a.current_mid,
                        a.market_liquidity)

\* C25: get_execution_price is non-mutating: for any arguments it leaves
\* permanent_impact_state unchanged, so calling it any number of times
\* between two update_state calls returns the same triple each time.
PreviewIsPure ==
    \A a \in PreviewArguments, b \in PreviewArguments :
        LET first == PreviewOf(permanent_impact_state, a)
            between == PreviewOf(first.state, b)
            again == PreviewOf(between.state, a)
        IN  /\ first.state = permanent_impact_state
            /\ between.state = permanent_impact_state
            /\ again.ret = first.ret

\* A preview was returned while the model carried a non-zero state.
WitnessPreviewIsPure ==
    /\ preview # NoPreview
    /\ impact_log # <<>>
    /\ permanent_impact_state # 0
    /\ preview.exec_price
          = preview.current_mid
            + Direction(preview.side) * preview.temp_impact
            + permanent_impact_state

\* The sum of direction * |size| over a log of update_state calls.
RECURSIVE SumImpacts(_)
SumImpacts(log) ==
    IF log = <<>> THEN 0
    ELSE (IF Head(log)[2] = "BUY" THEN 1 ELSE -1) * Abs(Head(log)[1])
         + SumImpacts(Tail(log))

RatioOfCall(call) ==
    Imbalance(SumQuantities(Slice(call.bids, 3)),
              SumQuantities(Slice(call.asks, 3)))

LatestRatios(history, call, w) ==
    LET all == Append(history, RatioOfCall(call))
    IN  SubSeq(all, IF Len(all) > w THEN Len(all) - w + 1 ELSE 1, Len(all))

MeanOver(ratios) ==
    LET total == FracSum(ratios)
    IN  [num |-> total.num, den |-> total.den * Len(ratios)]

\* The decision rule of one update step given non-empty sides.
DecisionFollowsMean ==
    LET call == update_call'
        mean == MeanOver(LatestRatios(imbalance_history, call, window))
        above == 2 * mean.num > threshold_x2 * mean.den
        below == threshold_x2 * mean.num < 2 * mean.den
    IN  (call.bids # <<>> /\ call.asks # <<>>) =>
          /\ call.ret = Signal("BUY", call.bids[1][1]) <=> above
          /\ call.ret = Signal("SELL", call.asks[1][1]) <=> below
          /\ call.ret = NoSignal <=> (~above /\ ~below)

DetectingIffOrderReturned ==
    update_call # NoUpdateCall =>
        (is_detecting <=> update_call.ret # NoSignal)

\* update returned None for an empty side while the flag stayed set.
WitnessFlagKeptOnEmptySide ==
    /\ update_call # NoUpdateCall
    /\ update_call.bids = <<>>
    /\ update_call.ret = NoSignal
    /\ is_detecting

\* C29: the fourth component of the observation vector is the fraction of
\* the horizon elapsed, current_step / horizon: 0 right after reset and
\* larger by 1/horizon with every step.
ObservationTimeIsElapsed ==
    obs # <<>> =>
        obs[4].num * env_horizon = current_step * obs[4].den

\* The observation returned by reset carries 1 as its fourth component.
WitnessObservationTimeIsRemaining ==
    /\ obs # <<>>
    /\ current_step = 0
    /\ ~done
    /\ obs[4].num = obs[4].den

\* The last n entries of a sequence, all of it if it is shorter.
LastN(seq, n) ==
    SubSeq(seq, IF Len(seq) > n THEN Len(seq) - n + 1 ELSE 1, Len(seq))

\* The gap lagged - mid as a fraction, and a fraction times p / q.
GapTo(mid, lagged) == Frac(lagged * mid.den - mid.num, mid.den)
Scaled(fraction, p, q) == Frac(fraction.num * p, fraction.den * q)

\* The buffer is the last lag_steps + 1 LIMIT prices of asset A.
BufferHoldsLatestPrices ==
    /\ Len(price_history_a) <= lag_steps + 1
    /\ price_history_a = LastN(limit_prices_a, lag_steps + 1)

\* One generate_events call: mid_b stays while the buffer is short, and
\* otherwise closes 2/25 of its gap to the LIMIT price lag_steps LIMIT
\* events before the newest, without landing on it.
MidBFollowsLaggedA ==
    events_generated' = events_generated + 1 =>
        IF Len(limit_prices_a') <= lag_steps THEN mid_b' = mid_b
        ELSE LET lagged == limit_prices_a'[Len(limit_prices_a') - lag_steps]
             IN  /\ GapTo(mid_b', lagged)
                       = Scaled(GapTo(mid_b, lagged), 23, 25)
                 /\ GapTo(mid_b, lagged).num # 0
                       => GapTo(mid_b', lagged).num # 0

HeapCoversLiveLevels ==
    /\ \A price \in LiveLevels(bids) : (0 - price) \in BagToSet(bid_prices)
    /\ \A price \in LiveLevels(asks) : price \in BagToSet(ask_prices)

\* cancel_order, for any id, hands back both heaps as it found them.
CancelKeepsHeaps ==
    \A order_id \in 1..order_id_counter :
        LET after == cancel_order(Book, order_id).book
        IN  /\ after.bid_prices = bid_prices
            /\ after.ask_prices = ask_prices

\* The entries one call took out of a heap lay at its head, none of what
\* stays sorts before them, and no order rests at their prices.
HeapShrinksFromHead ==
    /\ \A key \in BagToSet(bid_prices (-) bid_prices') :
          /\ \A kept \in BagToSet(bid_prices') : key <= kept
          /\ (0 - key) \notin LiveLevels(bids')
    /\ \A key \in BagToSet(ask_prices (-) ask_prices') :
          /\ \A kept \in BagToSet(ask_prices') : key <= kept
          /\ key \notin LiveLevels(asks')

\* C31: on each side the price heap is a superset of the live levels: every
\* price with a resting order appears in that side's heap, heap entries are
\* removed only from the head and only after the head was checked against
\* the level map, and cancel_order never removes a heap entry.
HeapIsSupersetOfLevels ==
    [](HeapCoversLiveLevels /\ CancelKeepsHeaps)
    /\ [][HeapShrinksFromHead]_vars

\* After a cancel left its entry behind, the same ask price was posted
\* again: the heap holds the price twice and the level is live.
WitnessHeapIsSupersetOfLevels ==
    \E price \in LiveLevels(asks) :
        /\ CopiesIn(price, ask_prices) >= 2
        /\ \E order_id \in DOMAIN order_pool :
              /\ order_id \notin orders
              /\ order_pool[order_id].order_type = "LIMIT"
              /\ order_pool[order_id].filled_quantity = 0

\* A handler that has begun to change the Simulator and has not finished.
MidTick(worker) ==
    \/ /\ worker.handler = "run_step"
       /\ worker.pc \in {"add_order", "predator_update", "mid_price"}
    \/ /\ worker.handler = "set_regime"
       /\ worker.pc = "set_hawkes"

\* Thread w runs one statement that writes or reads the Simulator.
Touches(w) ==
    /\ workers[w].pc \notin {"idle", "return_regime"}
    /\ workers'[w].pc # workers[w].pc

\* No statement runs while another handler is part-way through a tick.
NoInterleaving ==
    \A w \in Workers : Touches(w) =>
        \A v \in Workers \ {w} : ~MidTick(workers[v])

\* What get_state returned shows the book and the mid price of one
\* Simulator after the same number of ticks.
ResponsesConsistent ==
    \A w \in Workers :
        Len(workers[w].response) = 2 =>
            workers[w].response[1] = workers[w].response[2]

\* C32: the mutating calls against the shared Simulator (POST /step,
\* POST /reset, POST /regime) are serialized with each other and the
\* snapshot read by /state is taken inside the same critical section: no
\* two handlers interleave mutations of the book, generator or predator and
\* no handler observes a partially applied tick.
HandlersSerialized ==
    [](ResponsesConsistent) /\ [][NoInterleaving]_vars

\* Two threads are both part-way through Simulator.step on the same
\* Simulator.
WitnessTicksInterleaved ==
    /\ MidTick(workers[1])
    /\ MidTick(workers[2])
    /\ workers[1].self = sim.generation
    /\ workers[2].self = sim.generation

\* A step of generate_next_arrival: the clock never runs backwards, the
\* history changes only on return, and then by the one arrival accepted,
\* stamped with the clock.
ArrivalStep ==
    /\ hawkes_current_time' >= hawkes_current_time
    /\ (pc = "thinning" /\ pc' = "thinning") =>
          hawkes_history' = hawkes_history
    /\ (pc = "thinning" /\ pc' = "idle") =>
          /\ hawkes_history' =
                IF Len(hawkes_history) < HistoryCap
                THEN Append(hawkes_history, hawkes_current_time')
                ELSE Tail(Append(hawkes_history, hawkes_current_time'))
          /\ hawkes_current_time' >= call_start

\* C33: with base intensity mu > 0 every call to generate_next_arrival
\* terminates under fairness of the acceptance branch, and on return
\* exactly one new arrival time has been appended to the history and the
\* Hawkes clock has not moved backwards.
ArrivalCallTerminates ==
    /\ [](hawkes_mu > 0)
    /\ (pc = "thinning") ~> (pc = "idle")
    /\ [][ArrivalStep]_vars

\* A call has returned after a rejected candidate: the clock moved on by
\* more than the wait returned, and the history ends with the clock.
WitnessArrivalCallTerminates ==
    /\ pc = "idle"
    /\ Len(hawkes_history) >= 2
    /\ hawkes_history[Len(hawkes_history)] = hawkes_current_time
    /\ hawkes_current_time > call_start + event.dt

\* A step that changes the regime or a Hawkes parameter is a set_regime
\* call.
RegimeChanges ==
    \/ current_regime' # current_regime
    \/ hawkes_mu' # hawkes_mu
    \/ hawkes_alpha' # hawkes_alpha

\* C34: in every state reachable through construction and any sequence of
\* set_regime calls, with any regime argument, the Hawkes parameters
\* satisfy alpha / beta < 1, and set_regime leaves the Hawkes history,
\* both clocks and the order id counter unchanged.
BranchingRatioBelowOne ==
    /\ [](hawkes_alpha < hawkes_beta)
    /\ [][RegimeChanges =>
            UNCHANGED <<hawkes_history, hawkes_current_time, current_time,
                        generator_order_id_counter>>]_vars

\* The regime was raised on a generator that has produced events.
WitnessBranchingRatioBelowOne ==
    /\ current_regime = "HIGH_VOLATILITY"
    /\ hawkes_alpha = 8
    /\ hawkes_history # <<>>
    /\ generator_order_id_counter > 1
    /\ event.rate = base_lambda

\* A step that is a call of execute_market_order_with_impact: the preview
\* read the book and the impact state as they were before the step, the
\* order was then applied, update_state was called once, and the impact
\* state grew by the permanent impact of the quantity submitted.
ExecutionStep ==
    execution'.count # execution.count =>
        LET e == execution'
            order == order_pool'[e.order_id]
            mid == get_mid_price(Book).ret
            snapshot == get_snapshot(Book, 5).ret
        IN  /\ e.count = execution.count + 1
            /\ Len(e.calls) = 3
            /\ e.calls[1].op = "get_execution_price"
            /\ e.calls[1].trade_size = order.quantity
            /\ e.calls[1].side = order.side
            /\ e.calls[1].state = permanent_impact_state
            /\ e.calls[1].current_mid_x2 =
                  (IF mid = None THEN FallbackMidX2 ELSE mid)
            /\ e.calls[1].market_liquidity =
                  SumQuantities(IF order.side = "BUY" THEN snapshot.asks
                                ELSE snapshot.bids)
            /\ e.trades = returned'.trades
            /\ e.calls[2] = [op |-> "add_order", order_id |-> e.order_id]
            /\ e.order_id \notin DOMAIN order_pool
            /\ e.calls[3] = [op |-> "update_state",
                             trade_size |-> order.quantity,
                             side |-> order.side]
            /\ permanent_impact_state' =
                  permanent_impact_state
                  + PermImpact(order.quantity, order.side)

\* C35: each call to execute_market_order_with_impact performs exactly one
\* preview on the pre-execution book and impact state, then applies the
\* order to the book, then calls update_state exactly once, and the
\* cumulative impact grows by the permanent impact of the order's full
\* submitted quantity even when the order is only partly filled or not
\* filled at all.
ExecutionPreviewsThenApplies == [][ExecutionStep]_vars

\* A market order was executed with impact on a two-sided book and only
\* partly filled.
WitnessExecutionPreviewsThenApplies ==
    /\ execution.count >= 1
    /\ execution.trades # <<>>
    /\ SumQuantity(execution.trades)
          < order_pool[execution.order_id].quantity
    /\ execution.calls[1].current_mid_x2 # FallbackMidX2

\* C36: every entry of a VWAP schedule is non-negative and differs from
\* its exact proportional share X * v_i / sum(v) by at most one unit, for
\* every non-negative integer profile of length T with positive total;
\* the overshoot-repair branch (subtracting from the largest step) is
\* never taken for such inputs.
VWAPWithinOneUnit ==
    strategy = "VWAP" =>
        LET total_market_vol == SumSeq(market_volume_profile)
            truncated == [i \in 1..horizon |->
                             (market_volume_profile[i] * total_quantity)
                                 \div total_market_vol]
        IN  /\ Len(schedule) = horizon
            /\ \A i \in 1..horizon :
                  /\ schedule[i] >= 0
                  /\ Abs(schedule[i] * total_market_vol
                         - total_quantity * market_volume_profile[i])
                        <= total_market_vol
            /\ total_quantity - SumSeq(truncated) >= 0
            /\ schedule = AddOneEach(truncated, 0,
                                     total_quantity - SumSeq(truncated),
                                     horizon)

\* A schedule whose truncated shares fell short, the unit added going to a
\* step of zero expected volume.
WitnessVWAPWithinOneUnit ==
    /\ strategy = "VWAP"
    /\ total_quantity - SumSeq(
          [i \in 1..horizon |->
              (market_volume_profile[i] * total_quantity)
                  \div SumSeq(market_volume_profile)]) >= 1
    /\ market_volume_profile[1] = 0
    /\ schedule[1] = 1

\* How often an id occurs in the level queues of one side.
RECURSIVE OccurrencesIn(_, _, _)
OccurrencesIn(d, prices, id) ==
    IF prices = {} THEN 0
    ELSE LET p == CHOOSE x \in prices : TRUE
         IN  Cardinality({i \in 1..Len(d[p]) : d[p][i] = id})
             + OccurrencesIn(d, prices \ {p}, id)

Occurrences(id) ==
    OccurrencesIn(bids, DOMAIN bids, id) + OccurrencesIn(asks, DOMAIN asks, id)

\* The order sits in the queue of its own price on its own side.
AtOwnLevel(id) ==
    LET order == order_pool[id]
        d == IF order.side = "BUY" THEN bids ELSE asks
    IN  order.price \in DOMAIN d /\ InDeque(d[order.price], id)

\* C37: given orders with pairwise distinct ids and positive quantities,
\* in every reachable state the id index contains exactly the resting
\* orders: an id is in OrderBook.orders if and only if its order sits in
\* exactly one level queue, on its own side at its own price, with
\* remaining quantity > 0; no queue holds an order that is fully filled,
\* cancelled, or of type MARKET.
IndexIsExactlyResting ==
    /\ orders \subseteq DOMAIN order_pool
    /\ \A id \in DOMAIN order_pool :
          id \in orders <=>
              /\ Occurrences(id) = 1
              /\ AtOwnLevel(id)
              /\ remaining_quantity(order_pool[id]) > 0
    /\ \A id \in Resting :
          /\ id \in orders
          /\ remaining_quantity(order_pool[id]) > 0
          /\ order_pool[id].order_type = "LIMIT"

\* A partly filled order rests and is indexed, next to a LIMIT order that
\* was filled or cancelled and is in neither.
WitnessIndexIsExactlyResting ==
    /\ \E id \in orders : order_pool[id].filled_quantity > 0
    /\ \E id \in DOMAIN order_pool :
          /\ order_pool[id].order_type = "LIMIT"
          /\ id \notin orders
          /\ id \notin Resting

\* The trades of the log that name the order, as maker or as taker.
TradesNaming(id) ==
    SelectSeq(trades,
              LAMBDA t : t.maker_order_id = id \/ t.taker_order_id = id)

\* The filled quantities of a set of orders added up.
RECURSIVE SumFilled(_)
SumFilled(ids) ==
    IF ids = {} THEN 0
    ELSE LET id == CHOOSE x \in ids : TRUE
         IN  order_pool[id].filled_quantity + SumFilled(ids \ {id})

\* C38: quantity is conserved: in every reachable state, for each order
\* filled_quantity equals the sum of the quantities of the trades in
\* OrderBook.trades naming it as maker or as taker, every trade has
\* quantity >= 1 with a BUY on one side and a SELL on the other, and
\* therefore total filled quantity over BUY orders equals total filled
\* quantity over SELL orders.
QuantityConserved ==
    /\ \A id \in DOMAIN order_pool :
          order_pool[id].filled_quantity = SumQuantity(TradesNaming(id))
    /\ \A i \in 1..Len(trades) :
          /\ trades[i].quantity >= 1
          /\ order_pool[trades[i].maker_order_id].side
                # order_pool[trades[i].taker_order_id].side
          /\ trades[i].side = order_pool[trades[i].taker_order_id].side
    /\ SumFilled({id \in DOMAIN order_pool : order_pool[id].side = "BUY"})
          = SumFilled({id \in DOMAIN order_pool :
                          order_pool[id].side = "SELL"})

\* One order was matched in two trades and another is partly filled.
WitnessQuantityConserved ==
    /\ \E id \in DOMAIN order_pool : Len(TradesNaming(id)) >= 2
    /\ \E id \in DOMAIN order_pool :
          /\ order_pool[id].filled_quantity > 0
          /\ remaining_quantity(order_pool[id]) > 0

\* C39: the snapshot agrees with the best-price queries: after any
\* sequence of add_order, cancel_order and lookups, whenever a side has a
\* resting order the first level of get_snapshot(n >= 1) for that side
\* has the price returned by get_best_bid() / get_best_ask(), and every
\* level listed has aggregated quantity > 0.
SnapshotAgreesWithBest ==
    \A n_levels \in SnapshotDepths :
        LET snapshot == get_snapshot(Book, n_levels).ret
        IN  /\ RestingBids # {} =>
                  /\ snapshot.bids # <<>>
                  /\ snapshot.bids[1][1] = get_best_bid(Book).ret
            /\ RestingAsks # {} =>
                  /\ snapshot.asks # <<>>
                  /\ snapshot.asks[1][1] = get_best_ask(Book).ret
            /\ \A i \in 1..Len(snapshot.bids) : snapshot.bids[i][2] > 0
            /\ \A i \in 1..Len(snapshot.asks) : snapshot.asks[i][2] > 0

\* C40: every per-step quantity of an Almgren-Chriss schedule is
\* non-negative, for every X >= 0 and T >= 1, including the final step
\* that absorbs the rounding residual.
AlmgrenChrissNonNegative ==
    strategy = "AlmgrenChriss" =>
        \A i \in 1..Len(schedule) : schedule[i] >= 0

====
